---- MODULE Spec2Model ----
(***************************************************************************)
(* A model of sitrep's progress tree (src/src/progress.rs): nodes with a   *)
(* weak parent back-reference and an owning children map, a task, an       *)
(* observer handle and an atomic last_change generation; the operations    *)
(* create / attach / detach / update, and the report synthesizer.          *)
(*                                                                         *)
(* Every public call is one atomic action (a single producing thread).     *)
(* Arithmetic is that of the release profile: `+` on usize wraps and       *)
(* debug_assert! is compiled out.  usize is scaled down to 0..UsizeMax.    *)
(***************************************************************************)
EXTENDS Integers, Sequences, FiniteSets, TLC

\* ---------------------------------------------------------------- bounds
MaxNodes == 3
MaxOps == 5

\* ------------------------------------------------------ program constants
\* usize::MAX, scaled down (Generation::MAX, and the range of completed/total)
UsizeMax == 3
\* Generation::MIN
GenerationMin == 0
\* const INCREMENT: usize = 1 in bump_last_change
INCREMENT == 1

None == -1

\* PriorityLevel's discriminants (#[repr(u8)])
Trace == 1
Debug == 2
Info == 3
Warn == 4
Error == 5
\* PriorityLevel::MIN, PriorityLevel::MAX, PriorityLevel::ALL
PriorityLevelMin == Trace
PriorityLevelMax == Error
PriorityLevelAll == <<Trace, Debug, Info, Warn, Error>>
PriorityLevels == {PriorityLevelAll[i] : i \in 1..Len(PriorityLevelAll)}

\* two distinct observer handles (Arc<dyn Observer>)
Observers == {1, 2}
Ids == 0..(MaxNodes - 1)
Usize == 0..UsizeMax
Generations == 0..UsizeMax
\* the <<completed, total>> pairs an update closure leaves in the task: the
\* default, completed above total, both at usize::MAX, and an ordinary pair
\* (writing the pair the task already holds is the closure |_| {})
TaskInputs == {<<0, 0>>, <<1, 0>>, <<UsizeMax, UsizeMax>>, <<1, UsizeMax>>}

VARIABLES
    next_id,      \* static NEXT_ID
    nodes,        \* the ProgressIds of the nodes created so far
    parent,       \* relationships.parent of each node (None: Weak::new())
    children,     \* relationships.children of each node (the key set)
    task,         \* state.task of each node
    observer,     \* state.observer of each node
    last_change,  \* atomic_state.last_change of each node
    baseline,     \* consumer side: last_change of the last report obtained per node
    overflowed,   \* history: the parentless nodes whose counter has wrapped around
    touched,      \* history: nodes of trees that attach/detach restructured
    emitted,      \* the events observed during the last call, in order
    last_op,      \* history: the last call and its arguments
    ops,          \* number of calls made so far
    control,      \* state.task's state, is_cancelable and is_pausable of each node
    min_priority_level,  \* atomic_state.min_priority_level of each node (the u8 repr)
    sitrep_prio,  \* the environment variable SITREP_PRIO: {} unset, or {value}
    last_ret,     \* history: what the last control or message call did
    handles,      \* the handles callers hold on each node: Arc (strong) and Weak (weak)
    stack,        \* the call frames of each thread, innermost first
    rw,           \* the state of each node's two RwLocks
    observed,     \* history: the last observe() call and the locks its thread held
    spy           \* the test harness: the calls made and SpyObserver.events

vars == <<next_id, nodes, parent, children, task, observer, last_change,
          baseline, overflowed, touched, emitted, last_op, ops,
          control, min_priority_level, sitrep_prio, last_ret,
          handles, stack, rw, observed, spy>>

\* ------------------------------------------------------------ small helpers
Min2(a, b) == IF a <= b THEN a ELSE b
Max2(a, b) == IF a >= b THEN a ELSE b

\* usize::saturating_add
SaturatingAdd(a, b) == IF a + b > UsizeMax THEN UsizeMax ELSE a + b

\* `+` on usize in the release profile (wrapping)
WrappingAdd(a, b) == (a + b) % (UsizeMax + 1)

\* Task::default(): completed 0, total 0
TaskDefault == [completed |-> 0, total |-> 0]

\* Generation::add: overflowing_add
GenerationAdd(g, increment) ==
    [value |-> (g + increment) % (UsizeMax + 1), overflow |-> g + increment > UsizeMax]

\* ------------------------------------------------------------------ events
UpdateEvent(o, id) == [obs |-> o, kind |-> "Update", id |-> id]
DetachmentEvent(o, id) == [obs |-> o, kind |-> "Detachment", id |-> id]
GenerationOverflowEvent(o) == [obs |-> o, kind |-> "GenerationOverflow", id |-> None]

\* ------------------------------------------------------- tree navigation
\* the chain of parent back-references from n up to the parentless node
RECURSIVE PathToRoot(_)
PathToRoot(n) ==
    IF parent[n] = None THEN <<n>> ELSE <<n>> \o PathToRoot(parent[n])

\* the node whose last_change is the clock bump_last_change increments
RootOf(n) == PathToRoot(n)[Len(PathToRoot(n))]

\* the nodes reachable from the nodes of S through children maps, S included
RECURSIVE Reach(_, _)
Reach(S, k) ==
    IF k = 0 THEN S
    ELSE Reach(S \cup UNION {children[m] : m \in S}, k - 1)

\* the subtree of n: n and everything below it in the children maps
Subtree(n) == Reach({n}, MaxNodes)

\* the nodes that have n in their subtree
AncestorsOrSelf(n) == {a \in nodes : n \in Subtree(a)}

\* every node of every tree n belongs to
TreeOf(n) == UNION {Subtree(a) : a \in AncestorsOrSelf(n)}

\* a bump that increments the clock but forgets to stamp the nodes below it
BumpLastChangeNoSwap(n, lc) ==
    LET path == PathToRoot(n)
        root == path[Len(path)]
        added == GenerationAdd(lc[root], INCREMENT)
    IN  [last_change |-> [lc EXCEPT ![root] = added.value],
         value |-> added.value,
         overflow |-> added.overflow,
         root |-> root,
         events |-> IF added.overflow
                    THEN <<GenerationOverflowEvent(observer[root])>>
                    ELSE <<>>]

\* a bump that increments the node's own stamp and never walks up
BumpLastChangeSelfOnly(n, lc) ==
    LET added == GenerationAdd(lc[n], INCREMENT)
    IN  [last_change |-> [lc EXCEPT ![n] = added.value],
         value |-> added.value,
         overflow |-> added.overflow,
         root |-> n,
         events |-> IF added.overflow
                    THEN <<GenerationOverflowEvent(observer[n])>>
                    ELSE <<>>]

\* a bump that stamps every node sharing the clock, not only the chain
BumpLastChangeWholeTree(n, lc) ==
    LET path == PathToRoot(n)
        root == path[Len(path)]
        added == GenerationAdd(lc[root], INCREMENT)
        tree == {m \in nodes : PathToRoot(m)[Len(PathToRoot(m))] = root}
    IN  [last_change |-> [m \in Ids |-> IF m \in tree THEN added.value ELSE lc[m]],
         value |-> added.value,
         overflow |-> added.overflow,
         root |-> root,
         events |-> IF added.overflow
                    THEN <<GenerationOverflowEvent(observer[root])>>
                    ELSE <<>>]

\* a bump in which every node of the parent chain reports the wrap-around
BumpLastChangeOverflowPerNode(n, lc) ==
    LET path == PathToRoot(n)
        root == path[Len(path)]
        added == GenerationAdd(lc[root], INCREMENT)
        onPath == {path[i] : i \in 1..Len(path)}
    IN  [last_change |-> [m \in Ids |-> IF m \in onPath THEN added.value ELSE lc[m]],
         value |-> added.value,
         overflow |-> added.overflow,
         root |-> root,
         events |-> IF added.overflow
                    THEN [i \in 1..Len(path) |-> GenerationOverflowEvent(observer[path[i]])]
                    ELSE <<>>]

\* -------------------------------------------------------- bump_last_change
\* The recursion walks up to the parentless node, fetch_adds there, and on
\* the way back swaps the new value into every node of the chain.
BumpLastChange(n, lc) ==
    LET path == PathToRoot(n)
        root == path[Len(path)]
        added == GenerationAdd(lc[root], INCREMENT)
        onPath == {path[i] : i \in 1..Len(path)}
    IN  [last_change |-> [m \in Ids |-> IF m \in onPath THEN added.value ELSE lc[m]],
         value |-> added.value,
         overflow |-> added.overflow,
         root |-> root,
         events |-> IF added.overflow
                    THEN <<GenerationOverflowEvent(observer[root])>>
                    ELSE <<>>]

\* ------------------------------------------------------------------- Init
\* the lifecycle part of a task; the spec fixes Running as the initial state
TaskControlDefault == [state |-> "Running", is_cancelable |-> FALSE, is_pausable |-> FALSE]

\* the history of a call that is neither a control nor a message call
NoRet == [result |-> "none", visited |-> <<>>, level |-> None, thunk_calls |-> 0,
          message |-> None]

\* no handle of either kind
NoHandles == [strong |-> 0, weak |-> 0]

\* the threads that call into the library
Threads == {1, 2, 3}

\* the two RwLocks of every node
Locks == Ids \X {"relationships", "state"}

\* a lock nobody holds or waits for
Unlocked == [readers |-> {}, writer |-> None, waiting |-> {}]

\* no observe() call yet
NoObservation == [thread |-> None, kind |-> "none", held |-> {}]

\* the observers are NopObservers: nothing is recorded
NopObserver == [recording |-> FALSE, calls |-> <<>>, events |-> <<>>]

\* a SpyObserver that has received nothing yet
SpyObserverNew == [recording |-> TRUE, calls |-> <<>>, events |-> <<>>]

\* a spy that puts each event in front of those it holds
SpyObserveInsertFront(events, delivered) == delivered \o events

\* SpyObserver::observe, once per event a call delivers: events.push(event)
SpyObserve(events, delivered) == events \o delivered

\* the harness after a call: the call is noted and its events have reached
\* the spy during the call
Spied ==
    spy' = IF spy.recording
           THEN [spy EXCEPT !.calls = Append(@, [op |-> last_op'.op,
                                                 node |-> last_op'.node,
                                                 level |-> last_ret'.level]),
                            !.events = SpyObserve(@, emitted')]
           ELSE spy

\* a call that runs to completion alone leaves every lock free again
Sequential == UNCHANGED <<stack, rw, observed>> /\ Spied

\* the state before the first call, in a process started with SITREP_PRIO = env
InitEnv(env) ==
    /\ next_id = 0
    /\ nodes = {}
    /\ parent = [n \in Ids |-> None]
    /\ children = [n \in Ids |-> {}]
    /\ task = [n \in Ids |-> TaskDefault]
    /\ observer = [n \in Ids |-> None]
    /\ last_change = [n \in Ids |-> GenerationMin]
    /\ baseline = [n \in Ids |-> GenerationMin]
    /\ overflowed = {}
    /\ touched = {}
    /\ emitted = <<>>
    /\ last_op = [op |-> "init", node |-> None, child |-> None, obs |-> None,
                  ok |-> TRUE]
    /\ ops = 0
    /\ control = [n \in Ids |-> TaskControlDefault]
    /\ min_priority_level = [n \in Ids |-> PriorityLevelMin]
    /\ sitrep_prio = env
    /\ last_ret = NoRet
    /\ handles = [n \in Ids |-> NoHandles]
    /\ stack = [t \in Threads |-> <<>>]
    /\ rw = [l \in Locks |-> Unlocked]
    /\ observed = NoObservation
    /\ spy = NopObserver

\* a process started with SITREP_PRIO unset
Init == InitEnv({})

\* what a call outside the control and message interfaces leaves alone
NoControl ==
    /\ last_ret' = NoRet
    /\ UNCHANGED <<control, min_priority_level, sitrep_prio, handles>>
    /\ Sequential

Op(name, n, c, o, ok) == [op |-> name, node |-> n, child |-> c, obs |-> o, ok |-> ok]

\* the history set after a bump
OverflowedAfter(b) == IF b.overflow THEN overflowed \cup {b.root} ELSE overflowed

\* ----------------------------------------------------------- Progress::new
New(o, ctl) ==
    /\ ops < MaxOps
    /\ next_id < MaxNodes
    /\ LET id == next_id IN
        /\ next_id' = next_id + 1
        /\ nodes' = nodes \cup {id}
        /\ parent' = [parent EXCEPT ![id] = None]
        /\ children' = [children EXCEPT ![id] = {}]
        /\ task' = [task EXCEPT ![id] = TaskDefault]
        /\ observer' = [observer EXCEPT ![id] = o]
        /\ last_change' = [last_change EXCEPT ![id] = GenerationMin]
        /\ emitted' = <<>>
        /\ last_op' = Op("create_root", id, None, o, TRUE)
        /\ handles' = [handles EXCEPT ![id] = [strong |-> 1, weak |-> 1]]
        /\ control' = [control EXCEPT ![id] = ctl]
        /\ min_priority_level' = [min_priority_level EXCEPT ![id] = PriorityLevelMin]
    /\ ops' = ops + 1
    /\ last_ret' = NoRet
    /\ Sequential
    /\ UNCHANGED <<baseline, overflowed, touched, sitrep_prio>>

\* Progress::new(Task::default(), observer)
CreateRoot(o) == New(o, TaskControlDefault)

\* a create_child that reports the new child instead of the parent
CreateChildEmitsChildId(p) ==
    /\ ops < MaxOps
    /\ next_id < MaxNodes
    /\ p \in nodes
    /\ LET id == next_id IN
        /\ next_id' = next_id + 1
        /\ nodes' = nodes \cup {id}
        /\ parent' = [parent EXCEPT ![id] = p]
        /\ children' = [children EXCEPT ![id] = {}, ![p] = @ \cup {id}]
        /\ task' = [task EXCEPT ![id] = TaskDefault]
        /\ observer' = [observer EXCEPT ![id] = observer[p]]
        /\ last_change' = [last_change EXCEPT ![id] = GenerationMin]
        /\ emitted' = <<UpdateEvent(observer[p], id)>>
        /\ last_op' = Op("create_child", p, id, None, TRUE)
        /\ handles' = [handles EXCEPT ![id] = [strong |-> 1, weak |-> 0]]
        /\ control' = [control EXCEPT ![id] = TaskControlDefault]
        /\ min_priority_level' = [min_priority_level EXCEPT ![id] = PriorityLevelMin]
    /\ ops' = ops + 1
    /\ last_ret' = NoRet
    /\ Sequential
    /\ UNCHANGED <<baseline, overflowed, touched, sitrep_prio>>

\* ----------------------------------------------- Progress::new_with_parent
NewWithParent(p, ctl) ==
    /\ ops < MaxOps
    /\ next_id < MaxNodes
    /\ p \in nodes
    /\ LET id == next_id IN
        /\ next_id' = next_id + 1
        /\ nodes' = nodes \cup {id}
        /\ parent' = [parent EXCEPT ![id] = p]
        /\ children' = [children EXCEPT ![id] = {}, ![p] = @ \cup {id}]
        /\ task' = [task EXCEPT ![id] = TaskDefault]
        /\ observer' = [observer EXCEPT ![id] = observer[p]]
        /\ last_change' = [last_change EXCEPT ![id] = GenerationMin]
        /\ emitted' = <<UpdateEvent(observer[p], p)>>
        /\ last_op' = Op("create_child", p, id, None, TRUE)
        /\ handles' = [handles EXCEPT ![id] = [strong |-> 1, weak |-> 0]]
        /\ control' = [control EXCEPT ![id] = ctl]
        /\ min_priority_level' = [min_priority_level EXCEPT ![id] = PriorityLevelMin]
    /\ ops' = ops + 1
    /\ last_ret' = NoRet
    /\ Sequential
    /\ UNCHANGED <<baseline, overflowed, touched, sitrep_prio>>

\* Progress::new_with_parent(Task::default(), parent)
CreateChild(p) == NewWithParent(p, TaskControlDefault)

\* an update that emits one event per task field it changed
UpdateEmitsPerField(n, c, t) ==
    /\ ops < MaxOps
    /\ n \in nodes
    /\ LET b == BumpLastChange(n, last_change)
           e == <<UpdateEvent(observer[n], n)>>
       IN
        /\ task' = [task EXCEPT ![n] = [completed |-> c, total |-> t]]
        /\ last_change' = b.last_change
        /\ overflowed' = OverflowedAfter(b)
        /\ emitted' = b.events
                       \o (IF task[n].completed # c THEN e ELSE <<>>)
                       \o (IF task[n].total # t THEN e ELSE <<>>)
    /\ last_op' = Op("update", n, None, None, TRUE)
    /\ ops' = ops + 1
    /\ NoControl
    /\ UNCHANGED <<next_id, nodes, parent, children, observer, baseline, touched>>

\* ------------------------------------------------------- Progress::update
Update(n, c, t) ==
    /\ ops < MaxOps
    /\ n \in nodes
    /\ LET b == BumpLastChange(n, last_change) IN
        /\ task' = [task EXCEPT ![n] = [completed |-> c, total |-> t]]
        /\ last_change' = b.last_change
        /\ overflowed' = OverflowedAfter(b)
        /\ emitted' = b.events \o <<UpdateEvent(observer[n], n)>>
    /\ last_op' = Op("update", n, None, None, TRUE)
    /\ ops' = ops + 1
    /\ NoControl
    /\ UNCHANGED <<next_id, nodes, parent, children, observer, baseline, touched>>

\* an attach that leaves the child with the observer it had
AttachChildNoSwap(p, c) ==
    /\ ops < MaxOps
    /\ p \in nodes /\ c \in nodes
    /\ c \notin TreeOf(p)
    /\ LET lc1 == [last_change EXCEPT ![p] = Max2(last_change[p], last_change[c])]
           b == BumpLastChange(p, lc1)
       IN
        /\ observer' = observer
        /\ children' = [children EXCEPT ![p] = @ \cup {c}]
        /\ last_change' = b.last_change
        /\ overflowed' = OverflowedAfter(b)
        /\ emitted' = b.events \o <<UpdateEvent(observer[p], p)>>
        /\ last_op' = Op("attach_child", p, c, observer[c], TRUE)
        /\ touched' = touched \cup TreeOf(p) \cup Subtree(c)
    /\ ops' = ops + 1
    /\ NoControl
    /\ UNCHANGED <<next_id, nodes, parent, task, baseline>>

\* an attach that also records the parent as an owned child of the child
AttachChildOwningBackEdge(p, c) ==
    /\ ops < MaxOps
    /\ p \in nodes /\ c \in nodes
    /\ c \notin TreeOf(p)
    /\ LET lc1 == [last_change EXCEPT ![p] = Max2(last_change[p], last_change[c])]
           b == BumpLastChange(p, lc1)
       IN
        /\ observer' = [observer EXCEPT ![c] = observer[p]]
        /\ children' = [children EXCEPT ![p] = @ \cup {c}, ![c] = @ \cup {p}]
        /\ last_change' = b.last_change
        /\ overflowed' = OverflowedAfter(b)
        /\ emitted' = b.events \o <<UpdateEvent(observer[p], p)>>
        /\ last_op' = Op("attach_child", p, c, observer[c], TRUE)
        /\ touched' = touched \cup TreeOf(p) \cup Subtree(c)
    /\ ops' = ops + 1
    /\ NoControl
    /\ UNCHANGED <<next_id, nodes, parent, task, baseline>>

\* ------------------------------------------------- Progress::attach_child
\* Callers attach a node of another tree (a root, or a child of another
\* tree); the child's parent back-reference is not touched by the code.
AttachChild(p, c) ==
    /\ ops < MaxOps
    /\ p \in nodes /\ c \in nodes
    /\ c \notin TreeOf(p)
    /\ LET lc1 == [last_change EXCEPT ![p] = Max2(last_change[p], last_change[c])]
           b == BumpLastChange(p, lc1)
       IN
        /\ observer' = [observer EXCEPT ![c] = observer[p]]
        /\ children' = [children EXCEPT ![p] = @ \cup {c}]
        /\ last_change' = b.last_change
        /\ overflowed' = OverflowedAfter(b)
        /\ emitted' = b.events \o <<UpdateEvent(observer[p], p)>>
        /\ last_op' = Op("attach_child", p, c, observer[c], TRUE)
        /\ touched' = touched \cup TreeOf(p) \cup Subtree(c)
    /\ ops' = ops + 1
    /\ NoControl
    /\ UNCHANGED <<next_id, nodes, parent, task, baseline>>

\* ------------------------------------------- Progress::detach_from_parent
\* (the history records the replacement observer only when it is installed)
\* a detach that reports to the observer just installed in the child
DetachFromParentEffectNotifiesChild(n, o) ==
    IF parent[n] = None
    THEN /\ emitted' = <<>>
         /\ UNCHANGED <<parent, children, observer, last_change, overflowed, touched>>
    ELSE LET p == parent[n]
             b == BumpLastChange(p, last_change)
         IN /\ observer' = [observer EXCEPT ![n] = o]
            /\ parent' = [parent EXCEPT ![n] = None]
            /\ children' = [children EXCEPT ![p] = @ \ {n}]
            /\ last_change' = b.last_change
            /\ overflowed' = OverflowedAfter(b)
            /\ touched' = touched \cup TreeOf(p)
            /\ emitted' = b.events \o <<DetachmentEvent(o, n), UpdateEvent(o, p)>>

\* the effect on the state, shared by detach and detach_child
DetachFromParentEffect(n, o) ==
    IF parent[n] = None
    THEN /\ emitted' = <<>>
         /\ UNCHANGED <<parent, children, observer, last_change, overflowed, touched>>
    ELSE LET p == parent[n]
             b == BumpLastChange(p, last_change)
         IN /\ observer' = [observer EXCEPT ![n] = o]
            /\ parent' = [parent EXCEPT ![n] = None]
            /\ children' = [children EXCEPT ![p] = @ \ {n}]
            /\ last_change' = b.last_change
            /\ overflowed' = OverflowedAfter(b)
            /\ touched' = touched \cup TreeOf(p)
            /\ emitted' = b.events \o
                          <<DetachmentEvent(observer[p], n), UpdateEvent(observer[p], p)>>

DetachFromParent(n, o) ==
    /\ ops < MaxOps
    /\ n \in nodes
    /\ DetachFromParentEffect(n, o)
    /\ last_op' = Op("detach", n, parent[n], IF parent[n] = None THEN None ELSE o, TRUE)
    /\ ops' = ops + 1
    /\ NoControl
    /\ UNCHANGED <<next_id, nodes, task, baseline>>

\* a detach_child without the assert that child is in self's children map
DetachChildUnchecked(p, c, o) ==
    /\ ops < MaxOps
    /\ p \in nodes /\ c \in nodes
    /\ DetachFromParentEffect(c, o)
    /\ last_op' = Op("detach_child", p, c, o, TRUE)
    /\ ops' = ops + 1
    /\ NoControl
    /\ UNCHANGED <<next_id, nodes, task, baseline>>

\* ------------------------------------------------- Progress::detach_child
DetachChild(p, c, o) ==
    /\ ops < MaxOps
    /\ p \in nodes /\ c \in nodes
    /\ IF c \in children[p]
       THEN /\ DetachFromParentEffect(c, o)
            /\ last_op' = Op("detach_child", p, c, o, TRUE)
       ELSE \* assert!(…, "not a child") panics
            /\ emitted' = <<>>
            /\ last_op' = Op("detach_child", p, c, None, FALSE)
            /\ UNCHANGED <<parent, children, observer, last_change, overflowed, touched>>
    /\ ops' = ops + 1
    /\ NoControl
    /\ UNCHANGED <<next_id, nodes, task, baseline>>

\* ------------------------------------------------------------- Report::new
ReportCompleted(completed, total) == Min2(completed, total)

ReportTotal(completed, total) == Max2(completed, total)

ReportIsIndeterminate(completed, total) == (completed = 0) /\ (total = 0)

\* a constructor that stores the sums as they come
ReportNewUnclamped(progress_id, completed, total, subreports, lc) ==
    [progress_id |-> progress_id,
     completed |-> completed,
     total |-> total,
     is_indeterminate |-> ReportIsIndeterminate(completed, total),
     subreports |-> subreports,
     last_change |-> lc]

ReportNew(progress_id, completed, total, subreports, lc) ==
    LET completed1 == ReportCompleted(completed, total)
        total1 == ReportTotal(completed1, total)
    IN  [progress_id |-> progress_id,
         completed |-> completed1,
         total |-> total1,
         is_indeterminate |-> ReportIsIndeterminate(completed1, total1),
         subreports |-> subreports,
         last_change |-> lc]

\* Report::discrete
Discrete(report) == <<report.completed, report.total>>

\* Task::effective_discrete: (min(c, t), max(c, t))
EffectiveDiscrete(t) == <<Min2(t.completed, t.total), Max2(t.completed, t.total)>>

\* the fold with `+` in place of saturating_add
RECURSIVE FoldWrapping(_, _)
FoldWrapping(sum, items) ==
    IF items = {} THEN sum
    ELSE LET r == CHOOSE x \in items : TRUE
             item == Discrete(r)
         IN FoldWrapping(<<WrappingAdd(sum[1], item[1]), WrappingAdd(sum[2], item[2])>>,
                         items \ {r})

\* the fold of `report`: saturating sums of the items onto an initial pair
RECURSIVE FoldSaturating(_, _)
FoldSaturating(sum, items) ==
    IF items = {} THEN sum
    ELSE LET r == CHOOSE x \in items : TRUE
             item == Discrete(r)
         IN FoldSaturating(<<SaturatingAdd(sum[1], item[1]), SaturatingAdd(sum[2], item[2])>>,
                           items \ {r})

\* -------------------------------------------------------- Progress::report
RECURSIVE Report(_)
Report(n) ==
    LET lc == last_change[n]
        subreports == {Report(c) : c \in children[n]}
        own == EffectiveDiscrete(task[n])
        sum == FoldSaturating(own, subreports)
    IN ReportNew(n, sum[1], sum[2], subreports, lc)

\* ------------------------------------------------ Reporter::partial_report
\* Option<Report> is the empty set (None) or a singleton (Some)
\* the test with `<` in place of `<=`
IsUnchangedStrict(lc, generation) == lc < generation

\* `last_change <= generation`, the test of both early returns
IsUnchanged(lc, generation) == lc <= generation

RECURSIVE PartialReport(_, _)
\* the loop over the children: <<subreports, sub_completed, sub_total>>
RECURSIVE PartialChildren(_, _, _)
PartialChildren(todo, generation, acc) ==
    IF todo = {} THEN acc
    ELSE LET child == CHOOSE x \in todo : TRUE
             sub == PartialReport(child, generation)
             discrete == IF sub # {}
                         THEN Discrete(CHOOSE r \in sub : TRUE)
                         ELSE EffectiveDiscrete(task[child])
         IN PartialChildren(todo \ {child}, generation,
                            <<acc[1] \cup sub,
                              SaturatingAdd(acc[2], discrete[1]),
                              SaturatingAdd(acc[3], discrete[2])>>)

PartialReport(n, generation) ==
    LET lc == last_change[n] IN
    IF IsUnchanged(lc, generation) THEN {}
    ELSE LET acc == PartialChildren(children[n], generation, <<{}, 0, 0>>)
             subreports == acc[1]
             own == EffectiveDiscrete(task[n])
         IN IF subreports = {} /\ IsUnchanged(lc, generation) THEN {}
            ELSE {ReportNew(n, WrappingAdd(own[1], acc[2]), WrappingAdd(own[2], acc[3]),
                            subreports, lc)}

\* --------------------------------------------------- the consumer's calls
\* reporter.report(), remembering the report's last_change as next baseline
CallReport(n) ==
    /\ ops < MaxOps
    /\ n \in nodes /\ parent[n] = None
    /\ baseline' = [baseline EXCEPT ![n] = Report(n).last_change]
    /\ emitted' = <<>>
    /\ last_op' = Op("report", n, None, None, TRUE)
    /\ ops' = ops + 1
    /\ NoControl
    /\ UNCHANGED <<next_id, nodes, parent, children, task, observer, last_change,
                   overflowed, touched>>

\* reporter.partial_report(last_change), as in benches/partial_report.rs
CallPartialReport(n) ==
    /\ ops < MaxOps
    /\ n \in nodes /\ parent[n] = None
    /\ LET r == PartialReport(n, baseline[n]) IN
        IF r = {}
        THEN /\ last_op' = Op("partial_report", n, None, None, FALSE)
             /\ UNCHANGED baseline
        ELSE /\ last_op' = Op("partial_report", n, None, None, TRUE)
             /\ baseline' = [baseline EXCEPT ![n] = (CHOOSE x \in r : TRUE).last_change]
    /\ emitted' = <<>>
    /\ ops' = ops + 1
    /\ NoControl
    /\ UNCHANGED <<next_id, nodes, parent, children, task, observer, last_change,
                   overflowed, touched>>

\* ------------------------------------------------------------------- Next
Next ==
    \/ \E o \in Observers : CreateRoot(o)
    \/ \E p \in Ids : CreateChild(p)
    \/ \E n \in Ids, new \in TaskInputs : Update(n, new[1], new[2])
    \/ \E p \in Ids, c \in Ids : AttachChild(p, c)
    \/ \E n \in Ids, o \in Observers : DetachFromParent(n, o)
    \/ \E p \in Ids, c \in Ids, o \in Observers : DetachChild(p, c, o)
    \/ \E n \in Ids : CallReport(n)
    \/ \E n \in Ids : CallPartialReport(n)

Spec == Init /\ [][Next]_vars

\* ------------------------------------------------------ priority filtering
\* the values SITREP_PRIO takes: unset, a level in mixed case, a word that
\* is no level
EnvInputs == {{}, {"Warn"}, {"bogus"}}

\* str::to_lowercase on the words above
ToLowercase(s) == CASE s = "Warn" -> "warn"
                    [] OTHER -> s

\* <EnvPriorityLevel as FromStr>::from_str: Ok(level) as {level}, Err as {}
EnvPriorityLevelFromStr(s) ==
    LET string == ToLowercase(s)
    IN CASE string = "trace" -> {Trace}
         [] string = "debug" -> {Debug}
         [] string = "info" -> {Info}
         [] string = "warn" -> {Warn}
         [] string = "error" -> {Error}
         [] OTHER -> {}

\* PriorityLevel::from_env
FromEnv == IF sitrep_prio = {} THEN {}
           ELSE EnvPriorityLevelFromStr(CHOOSE level \in sitrep_prio : TRUE)

\* global_min_priority_level: from_env().unwrap_or(PriorityLevel::MIN)
GlobalMinPriorityLevel ==
    IF FromEnv = {} THEN PriorityLevelMin ELSE CHOOSE level \in FromEnv : TRUE

\* AtomicPriorityLevel::load: repr 0 is None
AtomicPriorityLevelLoad(repr) == IF repr = 0 THEN {} ELSE {repr}

\* AtomicPriorityLevel::store: None is repr 0
AtomicPriorityLevelStore(level) == IF level = {} THEN 0 ELSE CHOOSE l \in level : TRUE

\* Progress::min_priority_level
MinPriorityLevel(n) ==
    LET level == AtomicPriorityLevelLoad(min_priority_level[n])
    IN IF level = {} THEN GlobalMinPriorityLevel ELSE CHOOSE l \in level : TRUE

\* the overrides a caller sets: none, Warn
LevelInputs == {{}, {Warn}}

\* the strings a message thunk returns
Messages == {"test", "other"}

MessageEvent(o, id, message, priority) ==
    [obs |-> o, kind |-> "Message", id |-> id, message |-> message, priority |-> priority]

\* ----------------------------------------- Progress::set_min_priority_level
SetMinPriorityLevel(n, level) ==
    /\ ops < MaxOps
    /\ n \in nodes
    /\ min_priority_level' = [min_priority_level EXCEPT ![n] = AtomicPriorityLevelStore(level)]
    /\ emitted' = <<>>
    /\ last_op' = Op("set_min_priority_level", n, None, None, TRUE)
    /\ last_ret' = [NoRet EXCEPT !.level = AtomicPriorityLevelStore(level)]
    /\ ops' = ops + 1
    /\ UNCHANGED <<next_id, nodes, parent, children, task, observer, last_change,
                   baseline, overflowed, touched, control, sitrep_prio, handles>>
    /\ Sequential

\* a message that lets through only the levels above the minimum
MessageFilterStrict(n, message, level) ==
    /\ ops < MaxOps
    /\ n \in nodes
    /\ IF level <= MinPriorityLevel(n)
       THEN /\ emitted' = <<>>
            /\ last_ret' = [NoRet EXCEPT !.level = level]
       ELSE /\ emitted' = <<MessageEvent(observer[n], n, message, level)>>
            /\ last_ret' = [NoRet EXCEPT !.level = level, !.thunk_calls = 1,
                                         !.message = message]
    /\ last_op' = Op("message", n, None, None, TRUE)
    /\ ops' = ops + 1
    /\ UNCHANGED <<next_id, nodes, parent, children, task, observer, last_change,
                   baseline, overflowed, touched, control, min_priority_level,
                   sitrep_prio, handles>>
    /\ Sequential

\* -------------------------------------------------------- Progress::message
\* `message` is what the thunk returns; the thunk runs only past the filter
Message(n, message, level) ==
    /\ ops < MaxOps
    /\ n \in nodes
    /\ IF level < MinPriorityLevel(n)
       THEN /\ emitted' = <<>>
            /\ last_ret' = [NoRet EXCEPT !.level = level]
       ELSE /\ emitted' = <<MessageEvent(observer[n], n, message, level)>>
            /\ last_ret' = [NoRet EXCEPT !.level = level, !.thunk_calls = 1,
                                         !.message = message]
    /\ last_op' = Op("message", n, None, None, TRUE)
    /\ ops' = ops + 1
    /\ UNCHANGED <<next_id, nodes, parent, children, task, observer, last_change,
                   baseline, overflowed, touched, control, min_priority_level,
                   sitrep_prio, handles>>
    /\ Sequential

\* ------------------------------------------ messages and priority levels
MsgInit == \E env \in EnvInputs : InitEnv(env)

MsgNext ==
    \/ \E o \in Observers : CreateRoot(o)
    \/ \E p \in Ids : CreateChild(p)
    \/ \E n \in Ids, level \in LevelInputs : SetMinPriorityLevel(n, level)
    \/ \E n \in Ids, message \in Messages, level \in PriorityLevels :
            Message(n, message, level)

MsgSpec == MsgInit /\ [][MsgNext]_vars

\* ------------------------------------------------------------- Controller
\* the task a root is created with: running, cancelable and pausable
RootControlInputs ==
    {[state |-> "Running", is_cancelable |-> TRUE, is_pausable |-> TRUE]}

\* the tasks a child is created with: running or finished with both
\* capabilities, running with one of them missing
ControlInputs ==
    {[state |-> "Running", is_cancelable |-> TRUE, is_pausable |-> TRUE],
     [state |-> "Finished", is_cancelable |-> TRUE, is_pausable |-> TRUE],
     [state |-> "Running", is_cancelable |-> TRUE, is_pausable |-> FALSE],
     [state |-> "Running", is_cancelable |-> FALSE, is_pausable |-> TRUE]}

\* the orders in which a HashMap's values() may come out: a node's children
\* are visited in the order they have in one permutation of the nodes S
Orders(S) ==
    {s \in [1..Cardinality(S) -> S] : \A i, j \in 1..Cardinality(S) : s[i] = s[j] => i = j}

\* relationships.read().children.values().cloned().collect()
ChildrenVec(n, order) == SelectSeq(order, LAMBDA c : c \in children[n])

\* capability checks that ask for the other operation's flag
IsCapableSwapped(op, ctl) == IF op = "cancel" THEN ctl.is_pausable ELSE ctl.is_cancelable

\* Controller::is_pausable / Controller::is_cancelable, as each operation asks
IsCapable(op, ctl) == IF op = "cancel" THEN ctl.is_cancelable ELSE ctl.is_pausable

\* the error of the failed capability check
ControlError(op) == IF op = "cancel" THEN "NotCancelable" ELSE "NotPausable"

\* a guard that lets every operation move a node out of any state
GuardedTransitionAnyState(op, state) ==
    CASE op = "pause" -> "Paused"
      [] op = "resume" -> "Running"
      [] op = "cancel" -> "Canceled"

\* the guarded assignment to guard.task.state of pause, resume and cancel
GuardedTransition(op, state) ==
    CASE op = "pause" -> IF state = "Running" THEN "Paused" ELSE state
      [] op = "resume" -> IF state = "Paused" THEN "Running" ELSE state
      [] op = "cancel" -> IF state \in {"Paused", "Running"} THEN "Canceled" ELSE state

\* pause / resume / cancel on n and, depth first, on its children: `st` is
\* <<control, result, visited>> so far; the `?` returns at the first error
RECURSIVE ControlRec(_, _, _, _)
RECURSIVE ControlChildren(_, _, _, _)
RECURSIVE ControlChildrenIgnoreError(_, _, _, _)

\* a loop over the children that drops a child's error and goes on
ControlChildrenIgnoreError(op, todo, order, st) ==
    IF todo = <<>> THEN st
    ELSE ControlChildrenIgnoreError(op, Tail(todo), order,
                                    ControlRec(op, Head(todo), order, st))

\* the loop `for child in children { child.pause()?; }`
ControlChildren(op, todo, order, st) ==
    IF todo = <<>> THEN st
    ELSE LET r == ControlRec(op, Head(todo), order, st)
         IN IF r.result # "Ok" THEN r
            ELSE ControlChildren(op, Tail(todo), order, r)

\* a recursion that does not descend below a Finished or Canceled node
ControlRecStopsAtTerminal(op, n, order, st) ==
    IF ~IsCapable(op, st.control[n])
    THEN [st EXCEPT !.result = ControlError(op), !.visited = Append(@, n)]
    ELSE IF st.control[n].state \in {"Finished", "Canceled"}
    THEN [st EXCEPT !.visited = Append(@, n)]
    ELSE ControlChildren(op, ChildrenVec(n, order), order,
            [control |-> [st.control EXCEPT ![n].state = GuardedTransition(op, @)],
             result |-> "Ok",
             visited |-> Append(st.visited, n)])

ControlRec(op, n, order, st) ==
    IF ~IsCapable(op, st.control[n])
    THEN [st EXCEPT !.result = ControlError(op), !.visited = Append(@, n)]
    ELSE ControlChildren(op, ChildrenVec(n, order), order,
            [control |-> [st.control EXCEPT ![n].state = GuardedTransition(op, @)],
             result |-> "Ok",
             visited |-> Append(st.visited, n)])

\* a control call from the caller: no bump, no event
Control(op, n, order) ==
    /\ ops < MaxOps
    /\ n \in nodes
    /\ LET r == ControlRec(op, n, order, [control |-> control, result |-> "Ok",
                                          visited |-> <<>>])
       IN /\ control' = r.control
          /\ last_ret' = [NoRet EXCEPT !.result = r.result, !.visited = r.visited]
          /\ last_op' = Op(op, n, None, None, r.result = "Ok")
    /\ emitted' = <<>>
    /\ ops' = ops + 1
    /\ UNCHANGED <<next_id, nodes, parent, children, task, observer, last_change,
                   baseline, overflowed, touched, min_priority_level, sitrep_prio, handles>>
    /\ Sequential

\* ------------------------------------------------------ Controller::pause
Pause(n) == \E order \in Orders(Subtree(n) \ {n}) : Control("pause", n, order)

\* ----------------------------------------------------- Controller::resume
Resume(n) == \E order \in Orders(Subtree(n) \ {n}) : Control("resume", n, order)

\* ----------------------------------------------------- Controller::cancel
Cancel(n) == \E order \in Orders(Subtree(n) \ {n}) : Control("cancel", n, order)

\* --------------------------------------------- trees under a controller
\* (control calls never read or write an observer: one handle is enough)
CtlNext ==
    \/ \E ctl \in RootControlInputs : New(CHOOSE o \in Observers : TRUE, ctl)
    \/ \E p \in Ids, ctl \in ControlInputs : NewWithParent(p, ctl)
    \/ \E n \in Ids : Pause(n)
    \/ \E n \in Ids : Resume(n)
    \/ \E n \in Ids : Cancel(n)

CtlSpec == Init /\ [][CtlNext]_vars


\* ---------------------------------------------------------------- ownership
\* the handles a caller keeps on one node at most
MaxHandles == 2

\* a count that treats the parent back-reference as an owning reference
StrongCountOwningParentRef(n, live, h) ==
    h[n].strong + Cardinality({p \in live : n \in children[p]})
                + Cardinality({c \in live : parent[c] = n})

\* Arc::strong_count of node n: the Arc handles callers hold and the Arc in
\* the children map of every live node; relationships.parent is a Weak and
\* the reporter handle is a Weak, neither is counted
StrongCount(n, live, h) ==
    h[n].strong + Cardinality({p \in live : n \in children[p]})

\* the nodes left once every node without an owning reference is dropped,
\* and with it the Arcs of its children map
RECURSIVE Surviving(_, _)
Surviving(live, h) ==
    LET dead == {n \in live : StrongCount(n, live, h) = 0}
    IN IF dead = {} THEN live ELSE Surviving(live \ dead, h)

\* what the handle operations leave alone
OnlyHandles(name, n) ==
    /\ emitted' = <<>>
    /\ last_op' = Op(name, n, None, None, TRUE)
    /\ last_ret' = NoRet
    /\ ops' = ops + 1
    /\ Sequential
    /\ UNCHANGED <<next_id, parent, task, observer, last_change, baseline,
                   overflowed, touched, control, min_priority_level, sitrep_prio>>

\* Arc::clone of a handle the caller holds
CloneHandle(n) ==
    /\ ops < MaxOps
    /\ n \in nodes
    /\ handles[n].strong > 0 /\ handles[n].strong < MaxHandles
    /\ handles' = [handles EXCEPT ![n].strong = @ + 1]
    /\ OnlyHandles("clone", n)
    /\ UNCHANGED <<nodes, children>>

\* Weak::upgrade of the reporter handle: an Arc while the node lives, else None
UpgradeReporter(n) ==
    /\ ops < MaxOps
    /\ handles[n].weak > 0
    /\ handles' = IF n \in nodes /\ handles[n].strong < MaxHandles
                  THEN [handles EXCEPT ![n].strong = @ + 1]
                  ELSE handles
    /\ OnlyHandles("upgrade", n)
    /\ UNCHANGED <<nodes, children>>

\* drop of one Arc handle of node n
DropHandle(n) ==
    /\ ops < MaxOps
    /\ n \in nodes
    /\ handles[n].strong > 0
    /\ LET h == [handles EXCEPT ![n].strong = @ - 1]
           live == Surviving(nodes, h)
       IN /\ handles' = h
          /\ nodes' = live
          /\ children' = [m \in Ids |-> IF m \in live THEN children[m] ELSE {}]
    /\ OnlyHandles("drop", n)

OwnNext ==
    \/ \E o \in Observers : CreateRoot(o)
    \/ \E p \in nodes : CreateChild(p)
    \/ \E n \in Ids : CloneHandle(n)
    \/ \E n \in Ids : UpgradeReporter(n)
    \/ \E n \in Ids : DropHandle(n)

OwnSpec == Init /\ [][OwnNext]_vars

\* ------------------------------------- Report::to_pruned / into_pruned
\* prune with `>` in place of `>=`
RECURSIVE PruneStrict(_, _)
PruneStrict(report, min_last_change) ==
    LET results == {PruneStrict(r, min_last_change) : r \in report.subreports}
    IN  [report |-> [report EXCEPT !.subreports =
                        {x.report : x \in {y \in results : y.keep}}],
         keep |-> report.last_change > min_last_change]

\* Report::prune: retain_mut keeps the subreports whose own prune returns
\* true, each already pruned; the result is the mutated report and the bool
RECURSIVE Prune(_, _)
Prune(report, min_last_change) ==
    LET results == {Prune(r, min_last_change) : r \in report.subreports}
    IN  [report |-> [report EXCEPT !.subreports =
                        {x.report : x \in {y \in results : y.keep}}],
         keep |-> report.last_change >= min_last_change]

\* Option<Report> is the empty set (None) or a singleton (Some)
IntoPruned(report, min_last_change) ==
    LET pruned == Prune(report, min_last_change)
    IN IF pruned.keep THEN {pruned.report} ELSE {}

\* self.clone().into_pruned(min_last_change)
ToPruned(report, min_last_change) == IntoPruned(report, min_last_change)

\* --------------------------------------------------------- Controller::get
\* a lookup that tries self and the children map but never descends further
GetChildrenOnly(n, id) ==
    IF n = id THEN {n}
    ELSE IF id \in children[n] THEN {id}
    ELSE {}

\* self, else the entry of the children map under that id, else the first
\* hit of get() among the children ({}: None)
RECURSIVE Get(_, _)
Get(n, id) ==
    IF n = id THEN {n}
    ELSE IF id \in children[n] THEN {id}
    ELSE UNION {Get(c, id) : c \in children[n]}

\* ------------------------------------------------- a clock about to wrap
\* a process in which a root made with observer 1 has since been updated
\* UsizeMax - 1 times with the default task values, calls counted from here
WrapInit ==
    /\ next_id = 1
    /\ nodes = {0}
    /\ parent = [n \in Ids |-> None]
    /\ children = [n \in Ids |-> {}]
    /\ task = [n \in Ids |-> TaskDefault]
    /\ observer = [n \in Ids |-> IF n = 0 THEN 1 ELSE None]
    /\ last_change = [n \in Ids |-> IF n = 0 THEN UsizeMax - 1 ELSE GenerationMin]
    /\ baseline = [n \in Ids |-> GenerationMin]
    /\ overflowed = {}
    /\ touched = {}
    /\ emitted = <<UpdateEvent(1, 0)>>
    /\ last_op = Op("update", 0, None, None, TRUE)
    /\ ops = 0
    /\ control = [n \in Ids |-> TaskControlDefault]
    /\ min_priority_level = [n \in Ids |-> PriorityLevelMin]
    /\ sitrep_prio = {}
    /\ last_ret = NoRet
    /\ handles = [n \in Ids |-> IF n = 0 THEN [strong |-> 1, weak |-> 1] ELSE NoHandles]
    /\ stack = [t \in Threads |-> <<>>]
    /\ rw = [l \in Locks |-> Unlocked]
    /\ observed = NoObservation
    /\ spy = NopObserver

\* (every further root and every replacement observer is observer 2)
WrapNext ==
    \/ CreateRoot(2)
    \/ \E p \in Ids : CreateChild(p)
    \/ \E n \in Ids : Update(n, 1, 0)
    \/ \E p \in Ids, c \in Ids : AttachChild(p, c)
    \/ \E n \in Ids : DetachFromParent(n, 2)
    \/ \E p \in Ids, c \in Ids : DetachChild(p, c, 2)

WrapSpec == WrapInit /\ [][WrapNext]_vars

\* ------------------------------------------- one thread and a SpyObserver
\* the harness of the tests: Progress::new(Task::default(), spy) has
\* returned, the spy has received nothing
OrderInit ==
    /\ next_id = 1
    /\ nodes = {0}
    /\ parent = [n \in Ids |-> None]
    /\ children = [n \in Ids |-> {}]
    /\ task = [n \in Ids |-> TaskDefault]
    /\ observer = [n \in Ids |-> IF n = 0 THEN 1 ELSE None]
    /\ last_change = [n \in Ids |-> GenerationMin]
    /\ baseline = [n \in Ids |-> GenerationMin]
    /\ overflowed = {}
    /\ touched = {}
    /\ emitted = <<>>
    /\ last_op = Op("create_root", 0, None, 1, TRUE)
    /\ ops = 0
    /\ control = [n \in Ids |-> TaskControlDefault]
    /\ min_priority_level = [n \in Ids |-> PriorityLevelMin]
    /\ sitrep_prio = {}
    /\ last_ret = NoRet
    /\ handles = [n \in Ids |-> IF n = 0 THEN [strong |-> 1, weak |-> 1] ELSE NoHandles]
    /\ stack = [t \in Threads |-> <<>>]
    /\ rw = [l \in Locks |-> Unlocked]
    /\ observed = NoObservation
    /\ spy = SpyObserverNew

\* (messages go to the root, as in message::gets_delivered; a detached node
\* gets the spy again)
OrderNext ==
    \/ \E level \in PriorityLevels : Message(0, "test", level)
    \/ \E n \in Ids : Update(n, 1, 0)
    \/ CreateChild(0)
    \/ \E n \in Ids : DetachFromParent(n, 1)

OrderSpec == OrderInit /\ [][OrderNext]_vars

\* ------------------------------------------------------ threads and locks
\* Calls made by several threads at once, one step per lock operation,
\* atomic operation or observe() call. parking_lot's RwLock is task-fair:
\* a reader waits while a writer holds the lock or waits for it.
Data == <<next_id, nodes, parent, children, observer, handles, task, control,
          last_change>>
History == <<baseline, overflowed, touched, last_op, ops, min_priority_level,
             sitrep_prio, last_ret, spy>>

\* a call frame: the function, the node it runs on, its position, and its
\* locals (an id or generation, a cloned observer, the children still to
\* visit, a callee's result, whether the if-let guard is still alive)
Frame(fn, n) ==
    [fn |-> fn, node |-> n, pc |-> "start", id |-> None, obs |-> None,
     todo |-> {}, ret |-> "Ok", kept |-> TRUE]

\* the frame of a thread whose call has returned
Returned == Frame("returned", None)

Idle(t) == stack[t] = <<>>
Running(t) == stack[t] # <<>> /\ stack[t][1].fn # "returned"
Top(t) == stack[t][1]
Depth(t) == Len(stack[t])
At(t, fn, pc) == Running(t) /\ Top(t).fn = fn /\ Top(t).pc = pc

Goto(t, pc) == [stack EXCEPT ![t][1].pc = pc]
Call(t, pc, fn, n) ==
    [stack EXCEPT ![t] = <<Frame(fn, n)>> \o <<[Top(t) EXCEPT !.pc = pc]>> \o Tail(@)]

\* update and the setters that are calls of update with their own closure
UpdateCalls == {"update", "set_pausable", "set_cancelable"}

\* return to the caller: a bump hands its generation to the calling bump or
\* update, a control call hands its result to its caller, the thread keeps
\* what the outermost call returned
Return(t, val, res) ==
    LET rest == Tail(stack[t]) IN
    [stack EXCEPT ![t] =
        IF rest = <<>> THEN <<[Returned EXCEPT !.id = val, !.ret = res]>>
        ELSE <<[rest[1] EXCEPT !.id = IF rest[1].fn \in {"bump"} \cup UpdateCalls
                                      THEN val ELSE @,
                               !.ret = res]>> \o Tail(rest)]

\* the locks thread t holds, as <<node, field>> pairs
Held(t) ==
    {l \in Locks : rw[l].writer = t \/ \E d \in 1..(MaxNodes + 2) : <<t, d>> \in rw[l].readers}

\* RwLock::read, granted unless a writer holds the lock or waits for it
CanRead(l) == rw[l].writer = None /\ rw[l].waiting = {}
Read(t, l) == [rw EXCEPT ![l].readers = @ \cup {<<t, Depth(t)>>}]
\* the read guard taken by this frame is dropped
Unread(t, l) == [rw EXCEPT ![l].readers = @ \ {<<t, Depth(t)>>}]
\* RwLock::write: queue, then take the lock once nobody holds it
Queue(t, l) == [rw EXCEPT ![l].waiting = @ \cup {t}]
CanWrite(l) == rw[l].writer = None /\ rw[l].readers = {}
Write(t, l) == [rw EXCEPT ![l].writer = t, ![l].waiting = @ \ {t}]
Unwrite(t, l) == [rw EXCEPT ![l].writer = None]

\* a step that only moves on
Pc(t, pc) ==
    /\ stack' = Goto(t, pc)
    /\ UNCHANGED <<rw, observed, emitted, Data, History>>

\* a step that only changes a lock
LockStep(t, pc, locks) ==
    /\ stack' = Goto(t, pc)
    /\ rw' = locks
    /\ UNCHANGED <<observed, emitted, Data, History>>

\* the steps of RwLock::write on lock l, from pc to granted
WriteSteps(t, fn, l, pc, waiting, granted) ==
    \/ At(t, fn, pc) /\ LockStep(t, waiting, Queue(t, l))
    \/ At(t, fn, waiting) /\ CanWrite(l) /\ LockStep(t, granted, Write(t, l))

\* Observer::observe(event), called by thread t with the locks it holds
Observe(t, pc, event) ==
    /\ stack' = Goto(t, pc)
    /\ observed' = [thread |-> t, kind |-> event.kind, held |-> Held(t)]
    /\ emitted' = <<event>>
    /\ UNCHANGED <<rw, Data, History>>

\* a thread calls into the library
StartCall(t, fn, n) ==
    /\ Idle(t)
    /\ fn = "new" \/ n \in nodes
    /\ stack' = [stack EXCEPT ![t] = <<Frame(fn, IF fn = "new" THEN None ELSE n)>>]
    /\ UNCHANGED <<rw, observed, emitted, Data, History>>

\* --- ProgressId::new_unique, then Arc::new in new_impl
\* two threads hand out the value they read before either stores its increment
NewUniqueNotAtomic(t, fn, pc) ==
    /\ At(t, fn, "alloc")
    /\ next_id < MaxNodes
    /\ \E seen \in {next_id, Max2(next_id - 1, 0)} :
        stack' = [stack EXCEPT ![t][1].id = seen, ![t][1].pc = pc]
    /\ next_id' = next_id + 1
    /\ UNCHANGED <<nodes, parent, children, observer, handles, task, control, last_change>>
    /\ UNCHANGED <<rw, observed, emitted, History>>

\* NEXT_ID.fetch_add(1, Relaxed): one atomic read-modify-write
NewUnique(t, fn, pc) ==
    /\ At(t, fn, "alloc")
    /\ next_id < MaxNodes
    /\ stack' = [stack EXCEPT ![t][1].id = next_id, ![t][1].pc = pc]
    /\ next_id' = next_id + 1
    /\ UNCHANGED <<nodes, parent, children, observer, handles, task, control, last_change>>
    /\ UNCHANGED <<rw, observed, emitted, History>>

\* the node new_impl builds with the id it obtained
Construct(t, pc, par, obs, weak) ==
    LET id == Top(t).id IN
    /\ stack' = Goto(t, pc)
    /\ nodes' = nodes \cup {id}
    /\ parent' = [parent EXCEPT ![id] = par]
    /\ children' = [children EXCEPT ![id] = {}]
    /\ task' = [task EXCEPT ![id] = TaskDefault]
    /\ observer' = [observer EXCEPT ![id] = obs]
    /\ last_change' = [last_change EXCEPT ![id] = GenerationMin]
    /\ control' = [control EXCEPT ![id] = [state |-> "Running", is_cancelable |-> TRUE,
                                           is_pausable |-> TRUE]]
    /\ handles' = [handles EXCEPT ![id] = [strong |-> 1, weak |-> weak]]
    /\ UNCHANGED <<next_id, rw, observed, emitted, History>>

\* --- Progress::new
NewStep(t) ==
    \/ At(t, "new", "start") /\ Pc(t, "alloc")
    \/ NewUnique(t, "new", "construct")
    \/ At(t, "new", "construct") /\ Construct(t, "ret", None, 1, 1)
    \/ /\ At(t, "new", "ret")
       /\ stack' = Return(t, Top(t).id, "Ok")
       /\ UNCHANGED <<rw, observed, emitted, Data, History>>

\* --- Progress::new_with_parent
NewWithParentStep(t) ==
    LET p == Top(t).node
        st == <<p, "state">>
        rel == <<p, "relationships">>
    IN
    \/ /\ At(t, "new_with_parent", "start") /\ CanRead(st)
       /\ LockStep(t, "clone", Read(t, st))
    \/ /\ At(t, "new_with_parent", "clone")
       /\ stack' = [stack EXCEPT ![t][1].obs = observer[p], ![t][1].pc = "alloc"]
       /\ rw' = Unread(t, st)
       /\ UNCHANGED <<observed, emitted, Data, History>>
    \/ NewUnique(t, "new_with_parent", "construct")
    \/ /\ At(t, "new_with_parent", "construct")
       /\ Construct(t, "insert", p, Top(t).obs, 0)
    \/ WriteSteps(t, "new_with_parent", rel, "insert", "insert_wait", "insert_locked")
    \/ /\ At(t, "new_with_parent", "insert_locked")
       /\ stack' = Goto(t, "emit")
       /\ rw' = Unwrite(t, rel)
       /\ children' = [children EXCEPT ![p] = @ \cup {Top(t).id}]
       /\ UNCHANGED <<next_id, nodes, parent, observer, handles, task, control, last_change>>
       /\ UNCHANGED <<observed, emitted, History>>
    \/ /\ At(t, "new_with_parent", "emit") /\ CanRead(st)
       /\ LockStep(t, "observe", Read(t, st))
    \/ /\ At(t, "new_with_parent", "observe")
       /\ Observe(t, "ret", UpdateEvent(observer[p], p))
    \/ /\ At(t, "new_with_parent", "ret")
       /\ stack' = Return(t, Top(t).id, "Ok")
       /\ rw' = Unread(t, st)
       /\ UNCHANGED <<observed, emitted, Data, History>>

\* --- Progress::update
\* the closure update runs on the task under the write guard: update's own
\* (completed := 1), or the one of set_pausable(false) / set_cancelable(false)
UpdateTask(fn, n) ==
    CASE fn = "update" ->
            /\ task' = [task EXCEPT ![n] = [completed |-> 1, total |-> 0]]
            /\ UNCHANGED control
      [] fn = "set_pausable" ->
            /\ control' = [control EXCEPT ![n].is_pausable = FALSE]
            /\ UNCHANGED task
      [] fn = "set_cancelable" ->
            /\ control' = [control EXCEPT ![n].is_cancelable = FALSE]
            /\ UNCHANGED task

UpdateStep(t) ==
    \E fn \in UpdateCalls :
    LET n == Top(t).node
        st == <<n, "state">>
    IN
    \/ WriteSteps(t, fn, st, "start", "mutate_wait", "mutate")
    \/ /\ At(t, fn, "mutate")
       /\ stack' = Goto(t, "bump")
       /\ rw' = Unwrite(t, st)
       /\ UpdateTask(fn, n)
       /\ UNCHANGED <<next_id, nodes, parent, children, observer, handles, last_change>>
       /\ UNCHANGED <<observed, emitted, History>>
    \/ /\ At(t, fn, "bump")
       /\ stack' = Call(t, "emit", "bump", n)
       /\ UNCHANGED <<rw, observed, emitted, Data, History>>
    \/ /\ At(t, fn, "emit") /\ CanRead(st)
       /\ LockStep(t, "observe", Read(t, st))
    \/ /\ At(t, fn, "observe")
       /\ Observe(t, "ret", UpdateEvent(observer[n], n))
    \/ /\ At(t, fn, "ret")
       /\ stack' = Return(t, None, "Ok")
       /\ rw' = Unread(t, st)
       /\ UNCHANGED <<observed, emitted, Data, History>>

\* --- Progress::bump_last_change
\* The guard of self.relationships.read() is a temporary of the if-let
\* scrutinee: it lives through the recursion into the parent, and through
\* the else block too unless the edition drops it there (2024).
BumpLastChangeStep(t) ==
    LET n == Top(t).node
        st == <<n, "state">>
        rel == <<n, "relationships">>
    IN
    \/ /\ At(t, "bump", "start") /\ CanRead(rel)
       /\ LockStep(t, "upgrade", Read(t, rel))
    \/ /\ At(t, "bump", "upgrade") /\ parent[n] # None /\ parent[n] \in nodes
       /\ stack' = Call(t, "swap", "bump", parent[n])
       /\ UNCHANGED <<rw, observed, emitted, Data, History>>
    \/ /\ At(t, "bump", "upgrade") /\ ~(parent[n] # None /\ parent[n] \in nodes)
       /\ \E kept \in BOOLEAN :
            /\ stack' = [stack EXCEPT ![t][1].kept = kept, ![t][1].pc = "fetch_add"]
            /\ rw' = IF kept THEN rw ELSE Unread(t, rel)
       /\ UNCHANGED <<observed, emitted, Data, History>>
    \/ /\ At(t, "bump", "fetch_add")
       /\ LET added == GenerationAdd(last_change[n], INCREMENT) IN
            /\ last_change' = [last_change EXCEPT ![n] = added.value]
            /\ stack' = [stack EXCEPT ![t][1].id = added.value,
                                      ![t][1].pc = IF added.overflow THEN "overflow"
                                                   ELSE "ret"]
            /\ overflowed' = IF added.overflow THEN overflowed \cup {n} ELSE overflowed
       /\ UNCHANGED <<next_id, nodes, parent, children, observer, handles, task, control>>
       /\ UNCHANGED <<rw, observed, emitted, baseline, touched, last_op, ops,
                      min_priority_level, sitrep_prio, last_ret, spy>>
    \/ /\ At(t, "bump", "overflow") /\ CanRead(st)
       /\ LockStep(t, "observe", Read(t, st))
    \/ /\ At(t, "bump", "observe")
       /\ Observe(t, "observed", GenerationOverflowEvent(observer[n]))
    \/ /\ At(t, "bump", "observed")
       /\ LockStep(t, "ret", Unread(t, st))
    \/ /\ At(t, "bump", "swap")
       /\ last_change' = [last_change EXCEPT ![n] = Top(t).id]
       /\ stack' = Goto(t, "ret")
       /\ UNCHANGED <<next_id, nodes, parent, children, observer, handles, task, control>>
       /\ UNCHANGED <<rw, observed, emitted, History>>
    \/ /\ At(t, "bump", "ret")
       /\ stack' = Return(t, Top(t).id, "Ok")
       /\ rw' = Unread(t, rel)
       /\ UNCHANGED <<observed, emitted, Data, History>>

\* --- Progress::message (a level that passes the filter)
MessageStep(t) ==
    LET n == Top(t).node
        st == <<n, "state">>
    IN
    \/ /\ At(t, "message", "start") /\ CanRead(st)
       /\ LockStep(t, "observe", Read(t, st))
    \/ /\ At(t, "message", "observe")
       /\ Observe(t, "ret", MessageEvent(observer[n], n, "test", PriorityLevelMax))
    \/ /\ At(t, "message", "ret")
       /\ stack' = Return(t, None, "Ok")
       /\ rw' = Unread(t, st)
       /\ UNCHANGED <<observed, emitted, Data, History>>

\* --- Progress::report: the guard of self.relationships.read() lives to the
\* end of the statement that maps report() over the children
ReportStep(t) ==
    LET n == Top(t).node
        st == <<n, "state">>
        rel == <<n, "relationships">>
    IN
    \/ /\ At(t, "report", "start") /\ CanRead(rel)
       /\ stack' = [stack EXCEPT ![t][1].todo = children[n], ![t][1].pc = "children"]
       /\ rw' = Read(t, rel)
       /\ UNCHANGED <<observed, emitted, Data, History>>
    \/ /\ At(t, "report", "children")
       /\ \E c \in Top(t).todo :
            stack' = [stack EXCEPT ![t] =
                        <<Frame("report", c)>>
                        \o <<[Top(t) EXCEPT !.todo = @ \ {c}]>> \o Tail(@)]
       /\ UNCHANGED <<rw, observed, emitted, Data, History>>
    \/ /\ At(t, "report", "children") /\ Top(t).todo = {}
       /\ LockStep(t, "task", Unread(t, rel))
    \/ /\ At(t, "report", "task") /\ CanRead(st)
       /\ LockStep(t, "ret", Read(t, st))
    \/ /\ At(t, "report", "ret")
       /\ stack' = Return(t, None, "Ok")
       /\ rw' = Unread(t, st)
       /\ UNCHANGED <<observed, emitted, Data, History>>

\* a traversal that iterates relationships.read().children in place: the
\* read guard lives until the loop over the children is done
ControlStepGuardKept(t, op) ==
    LET n == Top(t).node
        st == <<n, "state">>
        rel == <<n, "relationships">>
    IN
    \/ /\ At(t, op, "start") /\ CanRead(st)
       /\ LockStep(t, "is_capable", Read(t, st))
    \/ /\ At(t, op, "is_capable")
       /\ stack' = IF IsCapable(op, control[n]) THEN Goto(t, "write")
                   ELSE Return(t, None, ControlError(op))
       /\ rw' = Unread(t, st)
       /\ UNCHANGED <<observed, emitted, Data, History>>
    \/ WriteSteps(t, op, st, "write", "write_wait", "transition")
    \/ /\ At(t, op, "transition")
       /\ stack' = Goto(t, "collect")
       /\ rw' = Unwrite(t, st)
       /\ control' = [control EXCEPT ![n].state = GuardedTransition(op, @)]
       /\ UNCHANGED <<next_id, nodes, parent, children, observer, handles, task, last_change>>
       /\ UNCHANGED <<observed, emitted, History>>
    \/ /\ At(t, op, "collect") /\ CanRead(rel)
       /\ LockStep(t, "collected", Read(t, rel))
    \/ /\ At(t, op, "collected")
       /\ stack' = [stack EXCEPT ![t][1].todo = children[n], ![t][1].pc = "children"]
       /\ UNCHANGED <<rw, observed, emitted, Data, History>>
    \/ /\ At(t, op, "children") /\ Top(t).ret = "Ok"
       /\ \E c \in Top(t).todo :
            stack' = [stack EXCEPT ![t] =
                        <<Frame(op, c)>>
                        \o <<[Top(t) EXCEPT !.todo = @ \ {c}]>> \o Tail(@)]
       /\ UNCHANGED <<rw, observed, emitted, Data, History>>
    \/ /\ At(t, op, "children") /\ (Top(t).ret # "Ok" \/ Top(t).todo = {})
       /\ stack' = Return(t, None, Top(t).ret)
       /\ rw' = Unread(t, rel)
       /\ UNCHANGED <<observed, emitted, Data, History>>

\* --- Controller::pause / resume / cancel (the three bodies differ in the
\* capability asked for and in the guarded assignment)
ControlStep(t, op) ==
    LET n == Top(t).node
        st == <<n, "state">>
        rel == <<n, "relationships">>
    IN
    \/ /\ At(t, op, "start") /\ CanRead(st)
       /\ LockStep(t, "is_capable", Read(t, st))
    \/ /\ At(t, op, "is_capable")
       /\ stack' = IF IsCapable(op, control[n]) THEN Goto(t, "write")
                   ELSE Return(t, None, ControlError(op))
       /\ rw' = Unread(t, st)
       /\ UNCHANGED <<observed, emitted, Data, History>>
    \/ WriteSteps(t, op, st, "write", "write_wait", "transition")
    \/ /\ At(t, op, "transition")
       /\ stack' = Goto(t, "collect")
       /\ rw' = Unwrite(t, st)
       /\ control' = [control EXCEPT ![n].state = GuardedTransition(op, @)]
       /\ UNCHANGED <<next_id, nodes, parent, children, observer, handles, task, last_change>>
       /\ UNCHANGED <<observed, emitted, History>>
    \/ /\ At(t, op, "collect") /\ CanRead(rel)
       /\ LockStep(t, "collected", Read(t, rel))
    \/ /\ At(t, op, "collected")
       /\ stack' = [stack EXCEPT ![t][1].todo = children[n], ![t][1].pc = "children"]
       /\ rw' = Unread(t, rel)
       /\ UNCHANGED <<observed, emitted, Data, History>>
    \/ /\ At(t, op, "children") /\ Top(t).ret = "Ok"
       /\ \E c \in Top(t).todo :
            stack' = [stack EXCEPT ![t] =
                        <<Frame(op, c)>>
                        \o <<[Top(t) EXCEPT !.todo = @ \ {c}]>> \o Tail(@)]
       /\ UNCHANGED <<rw, observed, emitted, Data, History>>
    \/ /\ At(t, op, "children") /\ (Top(t).ret # "Ok" \/ Top(t).todo = {})
       /\ stack' = Return(t, None, Top(t).ret)
       /\ UNCHANGED <<rw, observed, emitted, Data, History>>

\* --- Controller::pause
PauseStep(t) == ControlStep(t, "pause")

\* --- node creation on several threads, from an empty process
IdNext ==
    \E t \in Threads :
        \/ StartCall(t, "new", None)
        \/ \E n \in Ids : StartCall(t, "new_with_parent", n)
        \/ NewStep(t)
        \/ NewWithParentStep(t)

IdSpec == Init /\ [][IdNext]_vars

\* --- calls on one tree from several threads
\* a pausable root that has been updated UsizeMax times and then given a
\* pausable child, every lock free
LockInit ==
    /\ next_id = 2
    /\ nodes = {0, 1}
    /\ parent = [n \in Ids |-> IF n = 1 THEN 0 ELSE None]
    /\ children = [n \in Ids |-> IF n = 0 THEN {1} ELSE {}]
    /\ task = [n \in Ids |-> TaskDefault]
    /\ observer = [n \in Ids |-> IF n \in {0, 1} THEN 1 ELSE None]
    /\ last_change = [n \in Ids |-> IF n = 0 THEN UsizeMax ELSE GenerationMin]
    /\ baseline = [n \in Ids |-> GenerationMin]
    /\ overflowed = {}
    /\ touched = {}
    /\ emitted = <<UpdateEvent(1, 0)>>
    /\ last_op = Op("create_child", 0, 1, None, TRUE)
    /\ ops = 0
    /\ control = [n \in Ids |-> IF n \in {0, 1}
                                THEN [state |-> "Running", is_cancelable |-> TRUE,
                                      is_pausable |-> TRUE]
                                ELSE TaskControlDefault]
    /\ min_priority_level = [n \in Ids |-> PriorityLevelMin]
    /\ sitrep_prio = {}
    /\ last_ret = NoRet
    /\ handles = [n \in Ids |-> IF n = 0 THEN [strong |-> 1, weak |-> 1]
                                ELSE IF n = 1 THEN [strong |-> 1, weak |-> 0]
                                ELSE NoHandles]
    /\ stack = [t \in Threads |-> <<>>]
    /\ rw = [l \in Locks |-> Unlocked]
    /\ observed = NoObservation
    /\ spy = NopObserver

\* the calls each thread makes: a producer, a consumer and a thread that
\* adds nodes or sends a message
Calls(t) ==
    CASE t = 1 -> {"update"}
      [] t = 2 -> {"report", "pause"}
      [] OTHER -> {"new_with_parent", "message", "new"}

LockNext ==
    \E t \in Threads :
        \/ \E fn \in Calls(t), n \in Ids : StartCall(t, fn, n)
        \/ NewStep(t)
        \/ NewWithParentStep(t)
        \/ UpdateStep(t)
        \/ BumpLastChangeStep(t)
        \/ MessageStep(t)
        \/ ReportStep(t)
        \/ PauseStep(t)

LockSpec == LockInit /\ [][LockNext]_vars

\* --- a control traversal against writers of the same tree
\* a chain root 0 - child 1 - grandchild 2 built with new and
\* new_with_parent, every node pausable and cancelable, the child paused,
\* every lock free; the root is fresh or was updated UsizeMax times before
\* it got its child
TreeInit ==
    /\ next_id = 3
    /\ nodes = {0, 1, 2}
    /\ parent = [n \in Ids |-> IF n \in {1, 2} THEN n - 1 ELSE None]
    /\ children = [n \in Ids |-> IF n \in {0, 1} THEN {n + 1} ELSE {}]
    /\ task = [n \in Ids |-> TaskDefault]
    /\ observer = [n \in Ids |-> IF n \in {0, 1, 2} THEN 1 ELSE None]
    /\ \E g \in {GenerationMin, UsizeMax} :
            last_change = [n \in Ids |-> IF n = 0 THEN g ELSE GenerationMin]
    /\ baseline = [n \in Ids |-> GenerationMin]
    /\ overflowed = {}
    /\ touched = {}
    /\ emitted = <<UpdateEvent(1, 1)>>
    /\ last_op = Op("create_child", 1, 2, None, TRUE)
    /\ ops = 0
    /\ control = [n \in Ids |->
                    IF n \in {0, 1, 2}
                    THEN [state |-> IF n = 1 THEN "Paused" ELSE "Running",
                          is_cancelable |-> TRUE, is_pausable |-> TRUE]
                    ELSE TaskControlDefault]
    /\ min_priority_level = [n \in Ids |-> PriorityLevelMin]
    /\ sitrep_prio = {}
    /\ last_ret = NoRet
    /\ handles = [n \in Ids |-> IF n = 0 THEN [strong |-> 1, weak |-> 1]
                                ELSE IF n \in {1, 2} THEN [strong |-> 1, weak |-> 0]
                                ELSE NoHandles]
    /\ stack = [t \in Threads |-> <<>>]
    /\ rw = [l \in Locks |-> Unlocked]
    /\ observed = NoObservation
    /\ spy = NopObserver

\* pause, resume and cancel
ControlCalls == {"pause", "resume", "cancel"}

\* one thread traverses, one thread updates a task or withdraws a capability
CtlLockNext ==
    \/ \E fn \in ControlCalls, n \in Ids : StartCall(1, fn, n)
    \/ \E fn \in UpdateCalls, n \in Ids : StartCall(2, fn, n)
    \/ \E t \in Threads :
        \/ \E op \in ControlCalls : ControlStep(t, op)
        \/ UpdateStep(t)
        \/ BumpLastChangeStep(t)

CtlLockSpec == TreeInit /\ [][CtlLockNext]_vars

\* --- two producers on one tree
RaceNext ==
    \E t \in {1, 2} :
        \/ \E n \in Ids : StartCall(t, "update", n)
        \/ UpdateStep(t)
        \/ BumpLastChangeStep(t)

RaceSpec == TreeInit /\ [][RaceNext]_vars

\* =================================================================== claims
\* the events of one kind among those a call emitted
EventsOfKind(kind) == SelectSeq(emitted, LAMBDA e : e.kind = kind)

\* the nodes that share n's clock: those whose parent chain ends where n's does
ClockTree(n) == {m \in nodes : RootOf(m) = RootOf(n)}

\* no attach or detach has restructured a tree n belongs to
TreeUntouched(n) == TreeOf(n) \cap touched = {}

\* a report together with all the subreports nested in it
RECURSIVE AllReports(_)
AllReports(r) == {r} \cup UNION {AllReports(x) : x \in r.subreports}

\* the nodes appearing in an optional report
ReportNodes(opt) == {x.progress_id : x \in UNION {AllReports(r) : r \in opt}}

\* C1: every update(f) on a node n, whatever f changes, delivers exactly one
\* Update event, carrying n's id, to the observer n holds (the observer of
\* the root too, in a tree that attach/detach never restructured).
C1_UpdateEmitsOneUpdate ==
    last_op.op = "update" =>
        LET n == last_op.node
            ups == EventsOfKind("Update")
        IN /\ Len(ups) = 1
           /\ ups[1].id = n
           /\ ups[1].obs = observer[n]
           /\ TreeUntouched(n) => ups[1].obs = observer[RootOf(n)]
           /\ \A i \in 1..Len(emitted) :
                emitted[i].kind \in {"Update", "GenerationOverflow"}

\* an update on a descendant that changed both completed and total
C1_Witness ==
    /\ last_op.op = "update"
    /\ parent[last_op.node] # None
    /\ task[last_op.node] = [completed |-> UsizeMax, total |-> UsizeMax]
    /\ Len(emitted) = 1

\* C2: every update on n advances the generation of n's tree (the clock at
\* the end of n's parent chain) by exactly one, wrapping, and stamps n with
\* the new value; while no counter has wrapped the new value is the old
\* generation + 1 and exceeds every last_change of the tree before the call.
C2_UpdateAdvancesGeneration ==
    [][(last_op'.op = "update" /\ ops' = ops + 1) =>
        LET n == last_op'.node
            r == RootOf(n)
        IN /\ last_change'[r] = (last_change[r] + 1) % (UsizeMax + 1)
           /\ last_change'[n] = last_change'[r]
           /\ overflowed' = {} =>
                /\ last_change'[n] = last_change[r] + 1
                /\ \A m \in ClockTree(n) : last_change[m] < last_change'[n]
      ]_vars

\* an update on a grandchild whose tree has seen other changes before
C2_Witness ==
    /\ last_op.op = "update"
    /\ parent[last_op.node] # None
    /\ parent[parent[last_op.node]] # None
    /\ last_change[last_op.node] >= 2
    /\ overflowed = {}

\* C3 as stated: in a tree built with create_root and create_child only,
\* after an update on any node the root's partial_report against the
\* consumer's baseline (the last_change of the last report it obtained from
\* the root, Generation::MIN before the first) returns a report.
C3_PartialReportAfterUpdate ==
    (last_op.op = "update" /\ TreeUntouched(last_op.node)) =>
        LET r == RootOf(last_op.node)
        IN PartialReport(r, baseline[r]) # {}

\* C3 as amended: the same, provided the tree's generation counter has not
\* wrapped around.
C3_PartialReportAfterUpdateNoWrap ==
    (last_op.op = "update" /\ TreeUntouched(last_op.node)
        /\ RootOf(last_op.node) \notin overflowed) =>
        LET r == RootOf(last_op.node)
        IN PartialReport(r, baseline[r]) # {}

\* an update on a descendant after the consumer has moved its baseline on
C3_Witness ==
    /\ last_op.op = "update"
    /\ TreeUntouched(last_op.node)
    /\ parent[last_op.node] # None
    /\ RootOf(last_op.node) \notin overflowed
    /\ baseline[RootOf(last_op.node)] > GenerationMin
    /\ PartialReport(RootOf(last_op.node), baseline[RootOf(last_op.node)]) # {}

\* the nodes of the subtree of n changed since g, with their ancestors in it
ChangedWithAncestors(n, g) ==
    LET changed == {m \in Subtree(n) : last_change[m] > g}
    IN {a \in Subtree(n) : \E m \in changed : m \in Subtree(a)}

\* a node that is in no children map and has no parent
IsTopLevel(n) == n \in nodes /\ parent[n] = None /\ AncestorsOrSelf(n) = {n}

\* C4: for every baseline g, the nodes in the report tree returned by
\* root.partial_report(g) are exactly the nodes of the subtree with
\* last_change > g together with their ancestors within the subtree.
C4_DeltaSubset ==
    \A n \in nodes : IsTopLevel(n) =>
        \A g \in Generations : ReportNodes(PartialReport(n, g)) = ChangedWithAncestors(n, g)

\* C5: partial_report(g) on a node returns absent whenever no node of its
\* subtree, itself included, has last_change > g.
C5_DeltaMonotonicity ==
    \A n \in nodes : \A g \in Generations :
        (\A m \in Subtree(n) : last_change[m] <= g) => PartialReport(n, g) = {}

\* a node with a child, all stamped exactly g, that reported against g - 1
C5_Witness ==
    \E n \in nodes :
        /\ children[n] # {}
        /\ last_change[n] >= 1
        /\ \A m \in Subtree(n) : last_change[m] = last_change[n]
        /\ PartialReport(n, last_change[n]) = {}
        /\ PartialReport(n, last_change[n] - 1) # {}

\* C6: whenever partial_report(g) on a node returns a report, its completed
\* and total equal those of the full report() of the node in the same state.
C6_PartialAgreesWithFull ==
    \A n \in nodes : \A g \in Generations :
        \A r \in PartialReport(n, g) :
            /\ r.completed = Report(n).completed
            /\ r.total = Report(n).total

\* the saturating sum over a set of nodes of one component of effective_discrete
RECURSIVE SumEffective(_, _)
SumEffective(S, i) ==
    IF S = {} THEN 0
    ELSE LET m == CHOOSE x \in S : TRUE
         IN Min2(UsizeMax, EffectiveDiscrete(task[m])[i] + SumEffective(S \ {m}, i))

\* the children maps below n form a tree: no node is reached twice
IsTree(n) ==
    \A m \in Subtree(n) : Cardinality({q \in Subtree(n) : m \in children[q]}) <= 1

\* C7: the full report of the root of a tree, and every subreport in it, has
\* completed = the saturating sum of min(completed, total) over the nodes of
\* its own subtree and total = the saturating sum of max(completed, total),
\* and holds exactly one subreport per child.
C7_AggregationLaw ==
    \A n \in nodes : IsTree(n) =>
        \A r \in AllReports(Report(n)) :
            /\ r.completed = SumEffective(Subtree(r.progress_id), 1)
            /\ r.total = SumEffective(Subtree(r.progress_id), 2)
            /\ {x.progress_id : x \in r.subreports} = children[r.progress_id]
            /\ Cardinality(r.subreports) = Cardinality(children[r.progress_id])

\* a parent and a child whose sums exceed usize::MAX and saturate
C7_Witness ==
    \E n \in nodes :
        /\ IsTree(n)
        /\ children[n] # {}
        /\ \E c \in children[n] : EffectiveDiscrete(task[c])[1] > 0
        /\ EffectiveDiscrete(task[n])[1] = UsizeMax
        /\ Report(n).completed = UsizeMax

\* C8: every report produced by report() or partial_report(), and every
\* subreport inside it, has completed <= total, whatever the raw task values.
C8_Clamping ==
    \A n \in nodes :
        /\ \A r \in AllReports(Report(n)) : r.completed <= r.total
        /\ \A g \in Generations : \A p \in PartialReport(n, g) :
                \A r \in AllReports(p) : r.completed <= r.total

\* a task with completed above total under a parent, both in a delta report
C8_Witness ==
    \E n \in nodes : \E c \in children[n] :
        /\ task[c].completed > task[c].total
        /\ PartialReport(n, GenerationMin) # {}
        /\ c \in ReportNodes(PartialReport(n, GenerationMin))

\* C9: create_child(task, parent) bumps the parent's last_change: absent
\* wrap-around it is strictly greater after the call than before.
C9_CreateChildBumpsParent ==
    [][(last_op'.op = "create_child" /\ ops' = ops + 1) =>
        LET p == last_op'.node
        IN last_change[p] < UsizeMax => last_change'[p] > last_change[p]
      ]_vars

\* C10: create_root emits no event; create_child emits exactly one event, an
\* Update carrying the parent's id on the parent's observer (the observer of
\* the tree), and leaves the child in the parent's children map with its
\* parent back-reference set to the parent.
C10_CreateEvents ==
    /\ last_op.op = "create_root" => emitted = <<>>
    /\ last_op.op = "create_child" =>
        LET p == last_op.node
            c == last_op.child
        IN /\ emitted = <<UpdateEvent(observer[p], p)>>
           /\ TreeUntouched(p) => emitted[1].obs = observer[RootOf(p)]
           /\ c \in children[p]
           /\ parent[c] = p

\* a grandchild has just been created
C10_Witness ==
    /\ last_op.op = "create_child"
    /\ parent[last_op.node] # None
    /\ Len(emitted) = 1

\* the nodes of n's parent chain, n included
ChainOf(n) == {PathToRoot(n)[i] : i \in 1..Len(PathToRoot(n))}

\* C11 as stated: an update on n leaves the last_change of every proper
\* ancestor of n unchanged.
C11_AncestorsNotRestamped ==
    [][(last_op'.op = "update" /\ ops' = ops + 1) =>
        \A a \in ChainOf(last_op'.node) \ {last_op'.node} :
            last_change'[a] = last_change[a]
      ]_vars

\* C11 as amended: an update on n restamps every proper ancestor on n's
\* parent chain with n's new last_change, and leaves the last_change of
\* every node off that chain unchanged.
C11_OnlyChainRestamped ==
    [][(last_op'.op = "update" /\ ops' = ops + 1) =>
        LET n == last_op'.node
        IN /\ \A a \in ChainOf(n) : last_change'[a] = last_change'[n]
           /\ \A m \in Ids \ ChainOf(n) : last_change'[m] = last_change[m]
      ]_vars

\* an update on a node with a parent and a sibling whose stamp stayed behind
C11_Witness ==
    /\ last_op.op = "update"
    /\ parent[last_op.node] # None
    /\ last_change[parent[last_op.node]] = last_change[last_op.node]
    /\ \E s \in children[parent[last_op.node]] \ {last_op.node} :
            /\ parent[s] = parent[last_op.node]
            /\ last_change[s] < last_change[last_op.node]

\* C12: message(thunk, L) on n with L < n.min_priority_level() does not run
\* the thunk and emits nothing; otherwise the thunk runs exactly once and
\* exactly one Message event carrying n's id, the thunk's result and L goes
\* to the observer n holds (the root's observer in an unrestructured tree);
\* with the minimum set to Warn exactly the Warn and Error messages pass.
C12_MessageFilter ==
    last_op.op = "message" =>
        LET n == last_op.node
            L == last_ret.level
        IN /\ L < MinPriorityLevel(n) =>
                /\ last_ret.thunk_calls = 0
                /\ emitted = <<>>
           /\ L >= MinPriorityLevel(n) =>
                /\ last_ret.thunk_calls = 1
                /\ emitted = <<MessageEvent(observer[n], n, last_ret.message, L)>>
                /\ TreeUntouched(n) => emitted[1].obs = observer[RootOf(n)]
           /\ min_priority_level[n] = Warn => (emitted # <<>> <=> L \in {Warn, Error})

\* a Warn message passed the filter of a child whose minimum was set to Warn
C12_Witness ==
    /\ last_op.op = "message"
    /\ parent[last_op.node] # None
    /\ min_priority_level[last_op.node] = Warn
    /\ last_ret.level = Warn
    /\ last_ret.thunk_calls = 1
    /\ Len(emitted) = 1

\* C13: a node without a per-node override (freshly created, or after
\* set_min_priority_level(None)) has the process-wide default derived from
\* SITREP_PRIO as its effective minimum priority level.
C13_DefaultIsProcessWide ==
    /\ last_op.op = "create_root" =>
            MinPriorityLevel(last_op.node) = GlobalMinPriorityLevel
    /\ last_op.op = "create_child" =>
            MinPriorityLevel(last_op.child) = GlobalMinPriorityLevel
    /\ (last_op.op = "set_min_priority_level" /\ last_ret.level = 0) =>
            MinPriorityLevel(last_op.node) = GlobalMinPriorityLevel

\* the control operations
ControlOps == {"pause", "resume", "cancel"}

\* the step just taken is the control call last_op' describes
IsControlStep == last_op'.op \in ControlOps /\ ops' = ops + 1

\* the transitions of the lifecycle state machine
Allowed(op, from, to) ==
    \/ op = "pause" /\ from = "Running" /\ to = "Paused"
    \/ op = "resume" /\ from = "Paused" /\ to = "Running"
    \/ op = "cancel" /\ from \in {"Running", "Paused"} /\ to = "Canceled"

\* C14: pause, resume and cancel change a node's lifecycle state only along
\* Running->Paused (pause), Paused->Running (resume), Running->Canceled and
\* Paused->Canceled (cancel); a Finished or Canceled node is never changed,
\* pause never changes a Paused node, resume never a Running one.
C14_Transitions ==
    [][IsControlStep =>
        \A m \in Ids :
            /\ control'[m].state # control[m].state =>
                    Allowed(last_op'.op, control[m].state, control'[m].state)
            /\ control[m].state \in {"Finished", "Canceled"} => control'[m] = control[m]
            /\ control'[m].is_cancelable = control[m].is_cancelable
            /\ control'[m].is_pausable = control[m].is_pausable
      ]_vars

\* a cancel has gone through a Finished node and canceled a node below it
C14_Witness ==
    /\ last_op.op = "cancel"
    /\ \E m \in nodes : \E c \in children[m] :
            /\ control[m].state = "Finished"
            /\ control[c].state = "Canceled"
            /\ Len(SelectSeq(last_ret.visited, LAMBDA x : x \in {m, c})) = 2

\* what an operation that reaches a node makes of its state
Target(op, state) ==
    CASE op = "pause" -> IF state = "Running" THEN "Paused" ELSE state
      [] op = "resume" -> IF state = "Paused" THEN "Running" ELSE state
      [] op = "cancel" -> IF state \in {"Running", "Paused"} THEN "Canceled" ELSE state

\* C15: when every node of n's subtree has the capability the operation
\* asks for, cancel (pause, resume) on n returns Ok and every node of the
\* subtree that was Running or Paused is Canceled (Running -> Paused,
\* Paused -> Running), those below Finished or Canceled nodes included.
C15_WholeSubtree ==
    [][(IsControlStep /\ \A m \in Subtree(last_op'.node) :
                            IsCapable(last_op'.op, control[m])) =>
        /\ last_ret'.result = "Ok"
        /\ \A m \in Subtree(last_op'.node) :
                control'[m].state = Target(last_op'.op, control[m].state)
      ]_vars

\* an Ok cancel on a chain root - Finished child - grandchild, now Canceled
C15_Witness ==
    /\ last_op.op = "cancel"
    /\ last_ret.result = "Ok"
    /\ parent[last_op.node] = None
    /\ control[last_op.node].state = "Canceled"
    /\ \E m \in children[last_op.node] : \E c \in children[m] :
            /\ control[m].state = "Finished"
            /\ control[c].state = "Canceled"

\* C16: a control operation that changes a node's lifecycle state bumps
\* that node's last_change and emits one Update event for that node.
C16_ControlBumpsAndEmits ==
    [][IsControlStep =>
        \A m \in Ids : control'[m].state # control[m].state =>
            /\ last_change'[m] # last_change[m]
            /\ Len(SelectSeq(emitted', LAMBDA e : e.kind = "Update" /\ e.id = m)) = 1
      ]_vars

\* C17: pause or resume on a node that is not pausable returns NotPausable,
\* cancel on a node that is not cancelable returns NotCancelable; the state
\* of every node is left unchanged and no event is emitted.
C17_CapabilityError ==
    [][IsControlStep =>
        LET n == last_op'.node
            op == last_op'.op
        IN /\ (op \in {"pause", "resume"} /\ ~control[n].is_pausable) =>
                /\ last_ret'.result = "NotPausable"
                /\ control' = control
                /\ emitted' = <<>>
           /\ (op = "cancel" /\ ~control[n].is_cancelable) =>
                /\ last_ret'.result = "NotCancelable"
                /\ control' = control
                /\ emitted' = <<>>
      ]_vars

\* a pause was refused by a cancelable, non-pausable running node that has a
\* running child
C17_Witness ==
    /\ last_op.op = "pause"
    /\ last_ret.result = "NotPausable"
    /\ last_ret.visited = <<last_op.node>>
    /\ control[last_op.node] = [state |-> "Running", is_cancelable |-> TRUE,
                                is_pausable |-> FALSE]
    /\ \E c \in children[last_op.node] : control[c].state = "Running"

\* the nodes of a sequence
Range(s) == {s[i] : i \in 1..Len(s)}

\* C18: a control operation whose capability check fails at a node returns
\* that node's error and stops there: the node is the last one visited, every
\* node visited before it passed the check, was reached through its parent
\* and keeps the mutation applied to it; every other node is unchanged.
C18_AbortAtFirstError ==
    [][IsControlStep =>
        LET op == last_op'.op
            visited == last_ret'.visited
            failing == {i \in 1..Len(visited) : ~IsCapable(op, control[visited[i]])}
            before == IF failing = {} THEN Range(visited)
                      ELSE {visited[i] : i \in 1..(Len(visited) - 1)}
        IN /\ failing = {} <=> last_ret'.result = "Ok"
           /\ failing # {} =>
                /\ failing = {Len(visited)}
                /\ last_ret'.result = ControlError(op)
           /\ visited[1] = last_op'.node
           /\ \A i \in 2..Len(visited) :
                \E j \in 1..(i - 1) : visited[i] \in children[visited[j]]
           /\ \A m \in Ids :
                control'[m].state = IF m \in before THEN Target(op, control[m].state)
                                    ELSE control[m].state
      ]_vars

\* a pause paused the root, failed at its first child and never reached the
\* second, which is still running
C18_Witness ==
    /\ last_op.op = "pause"
    /\ last_ret.result = "NotPausable"
    /\ Len(last_ret.visited) = 2
    /\ control[last_op.node].state = "Paused"
    /\ \E c \in children[last_op.node] \ Range(last_ret.visited) :
            /\ control[c].state = "Running"
            /\ control[c].is_pausable

\* the step just taken is a detach or detach_child call that returned
IsDetachStep ==
    /\ last_op'.op \in {"detach", "detach_child"}
    /\ ops' = ops + 1
    /\ last_op'.ok

\* the node such a call detaches
Detached == IF last_op'.op = "detach" THEN last_op'.node ELSE last_op'.child

\* C19: when a child with a parent is detached (detach or detach_child)
\* with a replacement observer, the Detachment and Update events of the call
\* are exactly Detachment(child.id) then Update(parent.id), both on the
\* parent's observer, and a replacement observer other than the parent's
\* receives neither.
C19_DetachEvents ==
    [][(IsDetachStep /\ parent[Detached] # None) =>
        LET c == Detached
            p == parent[c]
            o == last_op'.obs
            evs == SelectSeq(emitted', LAMBDA e : e.kind # "GenerationOverflow")
        IN /\ evs = <<DetachmentEvent(observer[p], c), UpdateEvent(observer[p], p)>>
           /\ observer'[p] = observer[p]
           /\ o # observer[p] => \A i \in 1..Len(evs) : evs[i].obs # o
      ]_vars

\* detach_child has just given a child a replacement observer other than
\* the one its parent holds
C19_Witness ==
    /\ last_op.op = "detach_child"
    /\ last_op.ok
    /\ Len(emitted) = 2
    /\ emitted[1].kind = "Detachment"
    /\ emitted[1].id = last_op.child
    /\ emitted[1].obs = observer[last_op.node]
    /\ observer[last_op.child] = last_op.obs
    /\ last_op.obs # observer[last_op.node]

\* C20: after detach_child(parent, child, obs) returns normally, for a child
\* that create_child or attach_child put in parent's children map, child is
\* not in parent's children map, child has no parent, child's observer is
\* obs, and parent's last_change has been bumped.
C20_DetachChildPost ==
    [][(last_op'.op = "detach_child" /\ ops' = ops + 1 /\ last_op'.ok) =>
        LET p == last_op'.node
            c == last_op'.child
        IN /\ c \notin children'[p]
           /\ parent'[c] = None
           /\ observer'[c] = last_op'.obs
           /\ last_change'[p] = (last_change[RootOf(p)] + 1) % (UsizeMax + 1)
      ]_vars

\* C21: detach_child(parent, child, obs) with a child that is not in
\* parent's children map panics and changes nothing: relationships,
\* observers and last_change values stay as they were, no event is emitted.
C21_DetachChildNotAChild ==
    [][(last_op'.op = "detach_child" /\ ops' = ops + 1
            /\ last_op'.child \notin children[last_op'.node]) =>
        /\ ~last_op'.ok
        /\ emitted' = <<>>
        /\ UNCHANGED <<parent, children, observer, last_change, task, nodes>>
      ]_vars

\* detach_child was refused for a node that is the child of another node
C21_Witness ==
    /\ last_op.op = "detach_child"
    /\ ~last_op.ok
    /\ parent[last_op.child] # None
    /\ last_op.child \in children[parent[last_op.child]]
    /\ last_op.child \notin children[last_op.node]
    /\ last_op.node # last_op.child

\* the step just taken is the attach_child call last_op' describes
IsAttachStep == last_op'.op = "attach_child" /\ ops' = ops + 1

IsUpdateStep == last_op'.op = "update" /\ ops' = ops + 1

\* the roots of the trees that own n through children maps
DestinationRoots(n) == {r \in nodes : IsTopLevel(r) /\ n \in Subtree(r)}

\* C23: after attach_child(parent, child) the child has adopted the
\* destination tree's clock: an update on any node advances the generation
\* of the root of the tree that owns it, stamps the node from that clock and,
\* unless the counter wrapped, shows the node in the root's partial_report
\* against the root's last_change from just before the update.
C23_AttachAdoptsClock ==
    [][IsUpdateStep =>
        \A r \in DestinationRoots(last_op'.node) :
            last_change[r] < UsizeMax =>
                /\ last_change'[r] = last_change[r] + 1
                /\ last_change'[last_op'.node] = last_change'[r]
                /\ \E g \in Generations :
                        /\ g = last_change[r]
                        /\ last_op'.node \in ReportNodes(PartialReport(r, g))'
      ]_vars


\* C24: in every reachable state all nodes of one tree share the same
\* observer: every node of the children-map subtree of a node holds the
\* observer handle of that node, so after attach_child or detach the whole
\* moved subtree emits to the new observer.
C24_TreeSharesObserver ==
    \A n \in nodes : \A m \in Subtree(n) : observer[m] = observer[n]


\* the nodes met by following parent back-references from n for at most k steps
RECURSIVE ParentWalk(_, _)
ParentWalk(n, k) ==
    IF k = 0 \/ parent[n] = None THEN <<n>>
    ELSE <<n>> \o ParentWalk(parent[n], k - 1)

\* C25: after any sequence of create_root, create_child, attach_child (of a
\* node of another tree) and detach, no node is reachable from itself through
\* children maps, and following parent back-references from any node reaches
\* a parentless node without visiting a node twice.
C25_NoCycles ==
    \A n \in nodes :
        LET w == ParentWalk(n, MaxNodes)
        IN /\ n \notin Reach(children[n], MaxNodes)
           /\ parent[w[Len(w)]] = None
           /\ \A i, j \in 1..Len(w) : w[i] = w[j] => i = j

\* a subtree with a child of its own was attached while a created child
\* still carries its parent back-reference
C25_Witness ==
    /\ last_op.op = "attach_child"
    /\ children[last_op.child] # {}
    /\ \E n \in nodes : parent[n] # None /\ n \in children[parent[n]]


\* C26: a root has exactly one owning reference per external handle, a child
\* made by create_child has one more, from the children map of its parent
\* while that parent lives; the weak reporter handle and the parent
\* back-references add none, so every live node is kept by an external
\* handle on itself or on an ancestor: once all of them are dropped, the
\* whole tree is destroyed.
C26_Ownership ==
    \A n \in nodes :
        /\ StrongCount(n, nodes, handles) =
              handles[n].strong
              + (IF parent[n] # None /\ parent[n] \in nodes THEN 1 ELSE 0)
        /\ StrongCount(n, nodes, handles) > 0
        /\ \E a \in AncestorsOrSelf(n) : handles[a].strong > 0

\* the last handle of a root was dropped while a handle on its child was
\* kept: the root is gone, the child lives on with one owning reference
C26_Witness ==
    /\ last_op.op = "drop"
    /\ last_op.node \notin nodes
    /\ \E c \in nodes :
        /\ parent[c] = last_op.node
        /\ StrongCount(c, nodes, handles) = 1
    /\ handles[last_op.node].weak = 1


\* the nodes a call bumps: update and attach_child bump the node they are
\* called on, a detach that takes effect bumps the former parent
BumpOrigins ==
    LET o == last_op' IN
    CASE o.op \in {"update", "attach_child"} -> {o.node}
      [] o.op = "detach" -> {parent[o.node]} \ {None}
      [] o.op = "detach_child" /\ o.ok -> {parent[o.child]} \ {None}
      [] OTHER -> {}

\* the value the counter of r holds when the call increments it
CounterBeforeIncrement(r) ==
    IF last_op'.op = "attach_child" /\ r = last_op'.node
    THEN Max2(last_change[r], last_change[last_op'.child])
    ELSE last_change[r]

\* C28: a call delivers exactly one GenerationOverflow event, to the observer
\* of the node that holds the counter, when its increment starts from the
\* maximum value, and none when it does not, whichever node the bump
\* originates from (the counter is the one at the end of the parent chain).
C28_OverflowOnce ==
    [][ops' = ops + 1 =>
        LET wrapped == {RootOf(n) : n \in {m \in BumpOrigins :
                            CounterBeforeIncrement(RootOf(m)) = UsizeMax}}
        IN /\ \A r \in wrapped :
                EventsOfKind("GenerationOverflow")' =
                    <<GenerationOverflowEvent(observer'[r])>>
           /\ wrapped = {} => EventsOfKind("GenerationOverflow")' = <<>>
      ]_vars

\* an update on a grandchild wrapped the counter of the root two levels up
C28_Witness ==
    /\ last_op.op = "update"
    /\ parent[last_op.node] # None
    /\ parent[parent[last_op.node]] # None
    /\ Len(EventsOfKind("GenerationOverflow")) = 1
    /\ last_change[RootOf(last_op.node)] = GenerationMin


\* thread t holds a ProgressId: its creation call has obtained one or has
\* returned the node made with it
HasId(t) ==
    /\ stack[t] # <<>>
    /\ Top(t).fn \in {"new", "new_with_parent", "returned"}
    /\ Top(t).id # None

\* C27: under any interleaving of node creations on several threads, each
\* allocation returns an id greater than every id handed out before it, no
\* two threads hold the same id, and every node built carries its own.
C27_UniqueIds ==
    /\ [](\A t \in Threads : \A u \in Threads \ {t} :
            (HasId(t) /\ HasId(u)) => Top(t).id # Top(u).id)
    /\ [](\A t \in Threads :
            (HasId(t) /\ Top(t).pc # "construct") => Top(t).id \in nodes)
    /\ [][\A t \in Threads :
            (~HasId(t) /\ HasId(t)') =>
                \A u \in Threads \ {t} : HasId(u) => Top(u).id < Top(t).id'
         ]_vars

\* a thread that obtained its id later has already returned its node while
\* the thread with the smaller id has not built its node yet
C27_Witness ==
    \E t \in Threads : \E u \in Threads \ {t} :
        /\ HasId(t) /\ HasId(u)
        /\ Top(t).id < Top(u).id
        /\ Top(t).pc = "construct"
        /\ Top(u).fn = "returned"
        /\ Top(u).id \in nodes


\* C29: whenever observe() is called, the calling thread holds no lock, read
\* or write, on any node.
C29_NoLockAtObserve == observed.held = {}


\* the nodes strictly above n along parent back-references
ProperAncestors(n) == ChainOf(n) \ {n}

\* C30: outside attach and detach a thread holds locks of one node at a
\* time, and whenever it does hold locks of two nodes the one taken first
\* belongs to an ancestor of the other (the premises from which freedom from
\* deadlock is claimed for update, create_child, report and the control
\* calls running at once).
C30_LockDiscipline ==
    \A t \in Threads :
        /\ Cardinality({l[1] : l \in Held(t)}) <= 1
        /\ \A l1 \in Held(t), l2 \in Held(t) :
            \A d1 \in 1..(MaxNodes + 2), d2 \in 1..(MaxNodes + 2) :
                (/\ <<t, d1>> \in rw[l1].readers
                 /\ <<t, d2>> \in rw[l2].readers
                 /\ d1 < d2
                 /\ l1[1] # l2[1]) => l1[1] \in ProperAncestors(l2[1])


\* C32: n.get(id) returns the node with that id exactly when it is n or a
\* descendant of n through children maps, and absent for the ids of
\* ancestors, of nodes elsewhere and of nodes that do not exist (MaxNodes is
\* an id no node ever gets).
C32_GetFindsSubtree ==
    \A n \in nodes : \A id \in Ids \cup {MaxNodes} :
        Get(n, id) = IF id \in Subtree(n) THEN {id} ELSE {}

\* a grandchild found from two levels up, its grandparent not found from it,
\* and an id no node carries
C32_Witness ==
    \E n \in nodes : \E c \in children[n] : \E g \in children[c] :
        /\ g \notin children[n]
        /\ Get(n, g) = {g}
        /\ Get(g, n) = {}
        /\ Get(c, n) = {}
        /\ Get(n, MaxNodes) = {}

\* C33: every childless node whose task has total = 0, whatever its
\* completed value, reports is_indeterminate = TRUE
C33_ZeroTotalIsIndeterminate ==
    \A n \in nodes :
        (children[n] = {} /\ task[n].total = 0) => Report(n).is_indeterminate

\* C36: after attach_child(p, c), absent wrap-around (no counter has wrapped
\* up to and including the call), p's last_change is strictly greater than
\* both p's and c's last_change before the call, also when p is not the root
\* of its tree
C36_AttachExceedsBoth ==
    [][(IsAttachStep /\ overflowed' = {})
        => /\ last_change'[last_op'.node] > last_change[last_op'.node]
           /\ last_change'[last_op'.node] > last_change[last_op'.child]]_vars

\* C38: after any sequence of create_child, attach_child and detach calls, a
\* node c is in p's children map if and only if c's parent back-reference is
\* p, and every node is in the children map of at most one node
C38_StructuralConsistency ==
    /\ \A p \in nodes : \A c \in nodes : (c \in children[p]) <=> (parent[c] = p)
    /\ \A c \in nodes : Cardinality({p \in nodes : c \in children[p]}) <= 1

\* the nodes whose last_change a bump from n replaces: n's parent chain
BumpPath(n) == {PathToRoot(n)[i] : i \in 1..Len(PathToRoot(n))}

\* C39: the assertion of bump_last_change holds at every replacement:
\* whenever a bump replaces a node's last_change, the previous value is >=
\* the new value if and only if the root's counter wrapped in that bump
C39_BumpAssertion ==
    [][ops' = ops + 1 =>
        \A o \in BumpOrigins : \A m \in BumpPath(o) :
            (CounterBeforeIncrement(m) >= last_change'[m])
                <=> (CounterBeforeIncrement(RootOf(o)) = UsizeMax)
      ]_vars

\* the fields of a report other than its subreports
OwnFields(r) == <<r.progress_id, r.completed, r.total, r.is_indeterminate, r.last_change>>

\* C37: to_pruned(min) / into_pruned(min) returns None iff the report's own
\* last_change < min; otherwise it returns the report with, at every level,
\* exactly those subreports removed whose last_change < min (one with
\* last_change = min is kept), completed/total and all other fields of the
\* retained reports unchanged
C37_Pruned ==
    \A n \in nodes : \A min \in Generations :
        LET rep == Report(n)
            out == ToPruned(rep, min)
        IN /\ (out = {}) <=> (rep.last_change < min)
           /\ \A res \in out :
                /\ OwnFields(res) = OwnFields(rep)
                /\ \A r \in AllReports(res) : \E o \in AllReports(rep) :
                    /\ OwnFields(r) = OwnFields(o)
                    /\ {x.progress_id : x \in r.subreports} =
                          {x.progress_id : x \in {y \in o.subreports :
                                                    y.last_change >= min}}

\* a report was pruned at a bound that one of its subreports meets exactly
\* and another misses, and the same report is dropped whole at the maximum
C37_Witness ==
    \E n \in nodes : \E min \in Generations :
        \E res \in ToPruned(Report(n), min) :
            /\ \E a \in Report(n).subreports : a.last_change < min
            /\ \E b \in res.subreports : b.last_change = min
            /\ Cardinality(res.subreports) < Cardinality(Report(n).subreports)
            /\ ToPruned(Report(n), UsizeMax) = {}

\* the message calls made so far, as <<node, level>> in call order
MessagesPosted ==
    LET s == SelectSeq(spy.calls, LAMBDA c : c.op = "message")
    IN [i \in 1..Len(s) |-> <<s[i].node, s[i].level>>]

\* the Message events the spy holds, as <<id, priority>> in delivery order
MessagesObserved ==
    LET s == SelectSeq(spy.events, LAMBDA e : e.kind = "Message")
    IN [i \in 1..Len(s) |-> <<s[i].id, s[i].priority>>]

C35_NoLockAcrossRecursion ==
    \A t \in Threads :
        (Running(t) /\ Top(t).fn \in ControlOps) =>
            /\ Top(t).pc = "children" => Held(t) = {}
            /\ \A i \in 2..Depth(t) : \A l \in Held(t) : l[1] # stack[t][i].node

\* a traversal that started at the root holds the write lock of the
\* grandchild's state, two calls deep, while the other thread is inside an
\* update of the root
C35_Witness ==
    \E t \in Threads : \E u \in Threads \ {t} :
        /\ Running(t) /\ Top(t).fn \in ControlOps
        /\ Depth(t) = 3
        /\ Held(t) = {<<Top(t).node, "state">>}
        /\ rw[<<Top(t).node, "state">>].writer = t
        /\ Running(u) /\ stack[u][Depth(u)].fn \in UpdateCalls
        /\ stack[u][Depth(u)].node = stack[t][Depth(t)].node

\* C40: under any interleaving of a control operation with set_pausable,
\* set_cancelable or update on the same node, pause and resume change the
\* node's state only if is_pausable is true at the moment the state is
\* written, and cancel only if is_cancelable is true at that moment
C40_CapableWhenWritten ==
    [][\A n \in nodes :
        control'[n].state # control[n].state =>
            IF control'[n].state = "Canceled" THEN control[n].is_cancelable
            ELSE control[n].is_pausable]_vars

\* C31: when the observer has received Update(id) from an update on node id
\* (the updating thread is past its observe call), the task mutation and the
\* bump of the node's last_change are in effect, so that a report taken from
\* then on is at least as new as the update: it shows the written task and,
\* as long as no counter has wrapped, a last_change no older than the
\* generation the update's bump returned
C31_StateBeforeEvent ==
    \A t \in Threads :
        (At(t, "update", "ret") /\ overflowed = {}) =>
            /\ task[Top(t).node] = [completed |-> 1, total |-> 0]
            /\ Report(Top(t).node).last_change >= Top(t).id

====
